---- MODULE Spec2Model ----
(***************************************************************************)
(* Model of the warehouse ETL of FileReceiverCR: the BankAccounts          *)
(* processor (app/services/processors/bank_accounts.py), the Zaimy         *)
(* processor (app/services/processors/zaimy.py) and the SQLAlchemy session *)
(* they write through (app/db/database.py, app/db/models_maket.py).        *)
(*                                                                         *)
(* Values.  A JSON value is a record with a tag t: "null", "num" (an exact *)
(* decimal m * 10^-e) or "str" (a sequence of one-character strings).      *)
(* Strings are sequences so that strip, replace and the numeric parsers    *)
(* are computed character by character.  Keys with Cyrillic aliases are    *)
(* written transliterated, the module being ASCII.                         *)
(***************************************************************************)
EXTENDS Integers, Sequences, FiniteSets, TLC

(***************************************************************************)
(* Bounds of the model.                                                    *)
(***************************************************************************)
MaxLen == 2         \* records in an enumerated batch
MaxBatches == 2     \* batches one run of the model processes
MaxDay == 2         \* calendar days the clock can show

(***************************************************************************)
(* Exact decimals (decimal.Decimal): m * 10^-e.                            *)
(***************************************************************************)
RECURSIVE Pow10(_)
Pow10(n) == IF n = 0 THEN 1 ELSE 10 * Pow10(n - 1)

Dec(m, e) == [m |-> m, e |-> e]

DecEq(a, b) == a.m * Pow10(b.e) = b.m * Pow10(a.e)

DecMul(a, b) == Dec(a.m * b.m, a.e + b.e)

\* An amount of whole hundredths as a decimal of scale 2.
CentsDec(c) == Dec(c, 2)

\* Numeric(precision, scale=2): the value a column stores, in hundredths,
\* rounded half up (the model's amounts are never negative).
ToCents(d) == (2 * d.m * 100 + Pow10(d.e)) \div (2 * Pow10(d.e))

\* m * 10^-e is a dyadic rational, a value a binary float holds exactly,
\* iff 5^e divides m.
RECURSIVE Pow5(_)
Pow5(n) == IF n = 0 THEN 1 ELSE 5 * Pow5(n - 1)

IsDyadic(d) == d.m % Pow5(d.e) = 0

\* float == Decimal.  Python compares the two exactly: they are equal only
\* when the decimal the float was read from has the Decimal's value and the
\* float holds that value exactly.
FloatEqDecimal(f, d) == DecEq(f, d) /\ IsDyadic(d)

(***************************************************************************)
(* JSON values.                                                            *)
(***************************************************************************)
NullV == [t |-> "null"]
NumV(m, e) == [t |-> "num", m |-> m, e |-> e]
StrV(s) == [t |-> "str", s |-> s]

IsNull(v) == v.t = "null"
IsStr(v) == v.t = "str"
IsNum(v) == v.t = "num"

\* Python ==  on two JSON values.
PyEq(a, b) ==
    IF a.t # b.t THEN FALSE
    ELSE IF a.t = "null" THEN TRUE
    ELSE IF a.t = "str" THEN a.s = b.s
    ELSE DecEq(a, b)

\* Python truthiness (`not x` is ~Truthy(x)).
Truthy(v) ==
    IF v.t = "null" THEN FALSE
    ELSE IF v.t = "str" THEN Len(v.s) > 0
    ELSE v.m # 0

Digits == <<"0", "1", "2", "3", "4", "5", "6", "7", "8", "9">>
IsDigit(c) == \E i \in 1..10 : Digits[i] = c
DigitVal(c) == (CHOOSE i \in 1..10 : Digits[i] = c) - 1

\* str.strip(): leading and trailing whitespace removed.
RECURSIVE LStrip(_)
LStrip(s) == IF s # <<>> /\ Head(s) = " " THEN LStrip(Tail(s)) ELSE s
RECURSIVE RStrip(_)
RStrip(s) ==
    IF s # <<>> /\ s[Len(s)] = " " THEN RStrip(SubSeq(s, 1, Len(s) - 1)) ELSE s
Strip(s) == RStrip(LStrip(s))

\* str.replace(',', '.')
ReplaceComma(s) == [i \in 1..Len(s) |-> IF s[i] = "," THEN "." ELSE s[i]]

\* The digits of s read as a natural number, skipping the decimal point.
RECURSIVE DigitsValue(_)
DigitsValue(s) ==
    IF s = <<>> THEN 0
    ELSE IF s[Len(s)] = "." THEN DigitsValue(SubSeq(s, 1, Len(s) - 1))
    ELSE 10 * DigitsValue(SubSeq(s, 1, Len(s) - 1)) + DigitVal(s[Len(s)])

DotsIn(s) == {i \in 1..Len(s) : s[i] = "."}

\* The numeric literals float() and Decimal() both accept, over the characters
\* the model's inputs use: surrounding whitespace, digits, at most one point,
\* at least one digit.  Anything else (inner whitespace, a comma, a letter)
\* is rejected by both.
IsNumeral(s) ==
    LET u == Strip(s) IN
    /\ \A i \in 1..Len(u) : IsDigit(u[i]) \/ u[i] = "."
    /\ Cardinality(DotsIn(u)) <= 1
    /\ \E i \in 1..Len(u) : IsDigit(u[i])

NumeralValue(s) ==
    LET u == Strip(s)
        d == DotsIn(u)
    IN Dec(DigitsValue(u), IF d = {} THEN 0 ELSE Len(u) - (CHOOSE i \in d : TRUE))

\* int(x): [ok, v]; not ok is ValueError/TypeError.  A str must be digits
\* only (after strip); a number is truncated.
PyInt(v) ==
    IF v.t = "num" THEN [ok |-> TRUE, v |-> v.m \div Pow10(v.e)]
    ELSE IF v.t = "str" /\ IsNumeral(v.s) /\ DotsIn(v.s) = {}
        THEN [ok |-> TRUE, v |-> DigitsValue(Strip(v.s))]
    ELSE [ok |-> FALSE, v |-> 0]

\* Decimal(x): err is "" on success, "TypeError" for None and
\* "InvalidOperation" (an ArithmeticError, neither ValueError nor TypeError)
\* for a string that is no numeral.
PyDecimal(v) ==
    IF v.t = "null" THEN [err |-> "TypeError", d |-> Dec(0, 0)]
    ELSE IF v.t = "num" THEN [err |-> "", d |-> Dec(v.m, v.e)]
    ELSE IF IsNumeral(v.s) THEN [err |-> "", d |-> NumeralValue(v.s)]
    ELSE [err |-> "InvalidOperation", d |-> Dec(0, 0)]

\* float(x) of a str or a number: err is "ValueError" for a string that is no
\* numeral.  The float is carried as the decimal it was read from.
PyFloat(v) ==
    IF v.t = "null" THEN [err |-> "TypeError", d |-> Dec(0, 0)]
    ELSE IF v.t = "num" THEN [err |-> "", d |-> Dec(v.m, v.e)]
    ELSE IF IsNumeral(v.s) THEN [err |-> "", d |-> NumeralValue(v.s)]
    ELSE [err |-> "ValueError", d |-> Dec(0, 0)]

(***************************************************************************)
(* Field Resolver.  A record is a function from the keys it carries to     *)
(* JSON values.  FIELD_MAPPINGS lists the aliases of a canonical field in  *)
(* probing order; the Cyrillic aliases are transliterated.                 *)
(***************************************************************************)
FIELD_MAPPINGS ==
    [ID |-> <<"ID", "id", "id_ru", "identifikator">>,
     account_name |-> <<"account_name", "accountName", "nazvanie_scheta",
                        "nazvanieScheta", "Nazvanie scheta">>,
     balance |-> <<"balance", "balans", "Ostatok">>,
     balance_byn |-> <<"balance_byn", "balanceBYN", "balans_bel", "Ostatok BLR">>,
     currency |-> <<"currency", "valyuta", "Valyuta">>]

\* get_field_value(record, field_name, default): the value under the first
\* alias the record carries, else the default.
get_field_value(record, field_name, default) ==
    LET names == FIELD_MAPPINGS[field_name]
        hits == {i \in 1..Len(names) : names[i] \in DOMAIN record}
    IN IF hits = {} THEN default
       ELSE record[names[CHOOSE i \in hits : \A j \in hits : i <= j]]

(***************************************************************************)
(* Currency Converter.                                                     *)
(***************************************************************************)
USD == <<"U", "S", "D">>
EUR == <<"E", "U", "R">>
RUR == <<"R", "U", "R">>
KZT == <<"K", "Z", "T">>
UZS == <<"U", "Z", "S">>
BYN == <<"B", "Y", "N">>
BLR == <<"B", "L", "R">>

RateCodes == {USD, EUR, RUR, KZT, UZS}

\* _EXCHANGE_RATES with the default rates: 3.07, 3.5, 0.037, 0.0059, 0.0002.
EXCHANGE_RATES ==
    [c \in RateCodes |->
        IF c = USD THEN Dec(307, 2)
        ELSE IF c = EUR THEN Dec(35, 1)
        ELSE IF c = RUR THEN Dec(37, 3)
        ELSE IF c = KZT THEN Dec(59, 4)
        ELSE Dec(2, 4)]

\* rate = _EXCHANGE_RATES.get(balance_currency): the code is any JSON value.
HasRate(code) == IsStr(code) /\ code.s \in RateCodes

\* A converter that returns every amount as it is.
ConvertReturnsAmount(balance_currency, amount) == amount

\* convert_currency of bank_accounts.py, lines 58-74.
convert_currency(balance_currency, amount) ==
    IF HasRate(balance_currency)
        THEN DecMul(amount, EXCHANGE_RATES[balance_currency.s])
        ELSE amount

(***************************************************************************)
(* process_bank_accounts, lines 360-428: key resolution and the            *)
(* transformation of one record.                                           *)
(***************************************************************************)
\* Key resolution with a default key where the record is skipped.
ResolveKeyDefaultsToZero(record) ==
    LET parsed == PyInt(get_field_value(record, "ID", NullV))
    IN [ok |-> TRUE, id |-> IF parsed.ok THEN parsed.v ELSE 0]

\* The natural key: [ok, id].  Not ok when the ID is missing or falsy
\* (line 362) or int() raises (line 370).
ResolveKey(record) ==
    LET account_id_str == get_field_value(record, "ID", NullV)
        parsed == PyInt(account_id_str)
    IN IF ~Truthy(account_id_str) THEN [ok |-> FALSE, id |-> 0]
       ELSE [ok |-> parsed.ok, id |-> parsed.v]

\* A str amount is stripped and has its commas replaced before float().
NormalizeAmount(v) == IF IsStr(v) THEN StrV(ReplaceComma(Strip(v.s))) ELSE v

Zeros(abort, called) ==
    [abort |-> abort, balance |-> Dec(0, 0), balance_byn |-> Dec(0, 0),
     converter_called |-> called]

\* Lines 376-416.  abort: an exception that is neither ValueError nor
\* TypeError left the try block (decimal.InvalidOperation) and reaches the
\* handler of the batch.  balance and balance_byn are the floats of the
\* transformed record.  converter_called: convert_currency was invoked.
TransformAmounts(record) ==
    LET balance_raw == get_field_value(record, "balance", NullV)
        balance_byn_raw == get_field_value(record, "balance_byn", NullV)
        balance_currency == get_field_value(record, "currency", NullV)
        convert == PyEq(balance_raw, balance_byn_raw)
                     /\ ~PyEq(balance_currency, StrV(BLR))
        needs_decimal == convert \/ IsNull(balance_byn_raw)
        dec == PyDecimal(balance_raw)
        \* balance_byn_raw after lines 383-388: a Decimal, or the raw value
        byn_is_decimal == needs_decimal
        byn_decimal == IF convert THEN convert_currency(balance_currency, dec.d)
                       ELSE dec.d
        bal == IF IsNull(balance_raw) THEN [err |-> "", d |-> Dec(0, 0)]
               ELSE PyFloat(NormalizeAmount(balance_raw))
        byn == IF byn_is_decimal THEN [err |-> "", d |-> byn_decimal]
               ELSE PyFloat(NormalizeAmount(balance_byn_raw))
    IN IF needs_decimal /\ dec.err = "InvalidOperation" THEN Zeros(TRUE, FALSE)
       ELSE IF needs_decimal /\ dec.err = "TypeError" THEN Zeros(FALSE, FALSE)
       ELSE IF bal.err # "" \/ byn.err # "" THEN Zeros(FALSE, convert)
       ELSE [abort |-> FALSE, balance |-> bal.d, balance_byn |-> byn.d,
             converter_called |-> convert]

RECURSIVE IntToChars(_)
IntToChars(n) ==
    IF n < 10 THEN <<Digits[n + 1]>>
    ELSE IntToChars(n \div 10) \o <<Digits[(n % 10) + 1]>>

\* f"Account {account_id_int}"
DefaultName(id) == StrV(<<"A", "c", "c", "o", "u", "n", "t", " ">> \o IntToChars(id))

\* transformed_record, lines 419-426 (processing_date is that of the batch).
TransformedRecord(record, id) ==
    LET a == TransformAmounts(record)
    IN [account_id |-> id,
        account_name |-> get_field_value(record, "account_name", DefaultName(id)),
        currency |-> get_field_value(record, "currency", StrV(BYN)),
        balance |-> a.balance,
        balance_byn |-> a.balance_byn]

(***************************************************************************)
(* The warehouse (app/db/models_maket.py).  Amounts of Numeric(_, 2)       *)
(* columns are whole hundredths.  The processing_date column of a fact or  *)
(* summary row is the date its date_id encodes and is not carried.         *)
(***************************************************************************)
\* The calendar date of day d of the model's clock: d days after 2025-03-01.
DateOf(d) == [year |-> 2025, month |-> 3, day |-> d + 1]

\* int(processing_date_str.replace("-", "")) of strftime("%Y-%m-%d"), line 272
DateId(date) == date.year * 10000 + date.month * 100 + date.day

\* DimDate(...), lines 321-332
DimDateRow(date) ==
    [date_id |-> DateId(date), date |-> date,
     quarter |-> (date.month - 1) \div 3 + 1]

EmptyDB == [dim_date |-> {}, accounts |-> {}, facts |-> {}, summary |-> {}]

\* The rows of `over` replace the rows of `base` with the same value of
\* the primary-key column `key`.
OverlayBy(base, over, key) ==
    {r \in base : \A o \in over : o[key] # r[key]} \cup over

DimDateKey == "date_id"
AccountKey == "account_id"
FactKey == "id"
SummaryKey == "date_id"

\* What a transaction reads: the committed rows under its own flushed writes.
Overlay(base, tx) ==
    [dim_date |-> OverlayBy(base.dim_date, tx.dim_date, DimDateKey),
     accounts |-> OverlayBy(base.accounts, tx.accounts, AccountKey),
     facts |-> OverlayBy(base.facts, tx.facts, FactKey),
     summary |-> OverlayBy(base.summary, tx.summary, SummaryKey)]

\* accounts.account_name String(255) NOT NULL, accounts.currency String(3)
\* NOT NULL: the INSERT or UPDATE of any other value fails.
AccountRowOk(r) ==
    /\ IsStr(r.account_name) /\ Len(r.account_name.s) <= 255
    /\ IsStr(r.currency) /\ Len(r.currency.s) <= 3

(***************************************************************************)
(* The session (AsyncSessionLocal: autoflush=False, expire_on_commit=      *)
(* False).  tx: the rows flushed into the open transaction.  new_facts:    *)
(* DailyAccountBalance objects added and not flushed.  dirty_accounts and  *)
(* dirty_facts: persistent objects modified in memory and not flushed.     *)
(* loaded: the fact objects whose attributes this session has assigned;    *)
(* they keep the assigned floats, any other fact object is loaded from its *)
(* row with Decimal attributes.  active: FALSE once a flush or a statement *)
(* has failed; until rollback() every statement, every flush that has work *)
(* to do and commit() raise.                                               *)
(***************************************************************************)
NewSession ==
    [active |-> TRUE, tx |-> EmptyDB, new_facts |-> {}, dirty_accounts |-> {},
     dirty_facts |-> {}, loaded |-> {}]

\* A failed statement: the transaction is lost, the objects stay.
Deactivate(s) == [s EXCEPT !.active = FALSE, !.tx = EmptyDB]

\* A failed flush: the transaction is rolled back and the session restored
\* to its snapshot (pending objects expunged, the others expired).
FailFlush(s) ==
    [active |-> FALSE, tx |-> EmptyDB, new_facts |-> {}, dirty_accounts |-> {},
     dirty_facts |-> {}, loaded |-> {}]

IsClean(s) == s.new_facts = {} /\ s.dirty_accounts = {} /\ s.dirty_facts = {}

\* The row a fact object is stored as.
FactRow(o) ==
    [id |-> o.id, account_id |-> o.account_id, date_id |-> o.date_id,
     balance |-> ToCents(o.balance), balance_byn |-> ToCents(o.balance_byn)]

\* The object a fact row is loaded as: Decimal attributes.
FactObject(r) ==
    [id |-> r.id, account_id |-> r.account_id, date_id |-> r.date_id,
     balance |-> CentsDec(r.balance), balance_byn |-> CentsDec(r.balance_byn),
     is_float |-> FALSE]

\* The Account object of a key as the session holds it, if the row exists.
AccountObjects(s, view, id) ==
    IF \E a \in s.dirty_accounts : a.account_id = id
        THEN {a \in s.dirty_accounts : a.account_id = id}
        ELSE {a \in view.accounts : a.account_id = id}

\* The rows a flush writes: the objects just added, the pending facts and the
\* modified objects.  An UPDATE is emitted only for attributes whose value
\* differs from the loaded one, so an account set back to its row writes
\* nothing.
FlushWrites(s, db, added) ==
    LET view == Overlay(db, s.tx)
    IN [dim_date |-> added.dim_date,
        accounts |-> added.accounts \cup (s.dirty_accounts \ view.accounts),
        facts |-> {FactRow(o) : o \in s.new_facts \cup s.dirty_facts},
        summary |-> added.summary]

\* session.flush(), `added` being the rows of the objects added or modified
\* right before it: [ok, s].  A flush with nothing to write does nothing; one
\* with work fails on an inactive session, on a storage fault and on a
\* constraint violation.
Flush(s, db, added, fault) ==
    LET w == FlushWrites(s, db, added)
    IN IF IsClean(s) /\ added = EmptyDB THEN [ok |-> TRUE, s |-> s]
       ELSE IF ~s.active \/ fault \/ \E a \in w.accounts : ~AccountRowOk(a)
           THEN [ok |-> FALSE, s |-> FailFlush(s)]
       ELSE [ok |-> TRUE,
             s |-> [s EXCEPT !.tx = Overlay(s.tx, w), !.new_facts = {},
                             !.dirty_accounts = {}, !.dirty_facts = {},
                             !.loaded = OverlayBy(s.loaded,
                                            s.new_facts \cup s.dirty_facts, FactKey)]]

(***************************************************************************)
(* Inputs.  The records the model's batches are drawn from, one for each   *)
(* case of key resolution, transformation and reconciliation.              *)
(***************************************************************************)
\* Scenario A: a new account, no reporting-currency amount supplied.
RecScenarioA ==
    ("ID" :> StrV(<<"4", "2">>) @@ "currency" :> StrV(USD) @@ "balance" :> NumV(100, 0))
\* Equal amounts in a rated currency: converted.  Another name for key 42.
RecConverted ==
    ("id" :> NumV(42, 0) @@ "account_name" :> StrV(<<"M", "a", "i", "n">>)
        @@ "currency" :> StrV(USD) @@ "balance" :> NumV(100, 0)
        @@ "balance_byn" :> NumV(100, 0))
\* Locale-formatted amounts, given in both currencies; 0.10 is no float.
RecLocale ==
    ("ID" :> StrV(<<"7">>) @@ "currency" :> StrV(BYN)
        @@ "Ostatok" :> StrV(<<" ", "0", ",", "1", "0">>)
        @@ "Ostatok BLR" :> StrV(<<"0", ",", "1">>))
\* No natural key.
RecNoKey == ("currency" :> StrV(USD) @@ "balance" :> NumV(100, 0))
\* A natural key int() rejects.
RecBadKey == ("ID" :> StrV(<<"x", "7">>) @@ "balance" :> NumV(100, 0))
\* An amount float() rejects, the other amount given.
RecBadAmount ==
    ("ID" :> StrV(<<"7">>) @@ "balance" :> StrV(<<"a", "b", "c">>)
        @@ "balance_byn" :> NumV(5, 0))
\* An amount nothing parses, the only amount given.
RecBadAmountOnly == ("ID" :> StrV(<<"7">>) @@ "balance" :> StrV(<<"a", "b", "c">>))
\* An amount Decimal() rejects: a comma as decimal separator, alone.
RecCommaAmount == ("ID" :> StrV(<<"7">>) @@ "balance" :> StrV(<<"1", ",", "5">>))
\* A null account name: NOT NULL is violated when the row is written.
RecNullName ==
    ("ID" :> StrV(<<"7">>) @@ "account_name" :> NullV @@ "balance" :> NumV(25, 2)
        @@ "balance_byn" :> NumV(50, 2))

Records ==
    {RecScenarioA, RecConverted, RecLocale, RecNoKey, RecBadKey, RecBadAmount,
     RecBadAmountOnly, RecCommaAmount, RecNullName}

RECURSIVE SeqsUpTo(_, _)
SeqsUpTo(S, n) ==
    IF n = 0 THEN {<<>>}
    ELSE LET shorter == SeqsUpTo(S, n - 1)
         IN shorter \cup {Append(q, x) : q \in {t \in shorter : Len(t) = n - 1}, x \in S}

\* The stride of the periodic flush, line 503.
FlushStride == 50

\* A batch long enough for the periodic flush: `first`, records without a
\* key, and `last` as the record of index 50.
LongBatch(first, last) ==
    [i \in 1..(FlushStride + 1) |->
        IF i = 1 THEN first ELSE IF i = FlushStride + 1 THEN last ELSE RecNoKey]

\* A batch of valid records whose record of index 50 has no key.
StrideSkipped ==
    [i \in 1..(FlushStride + 2) |->
        IF i = FlushStride + 1 THEN RecNoKey ELSE RecScenarioA]

LongBatches ==
    {LongBatch(RecScenarioA, RecLocale), LongBatch(RecScenarioA, RecNoKey),
     StrideSkipped}

\* The batches a request can carry, the empty one included.
Batches == SeqsUpTo(Records, MaxLen) \cup LongBatches

(***************************************************************************)
(* State.                                                                  *)
(*   db       the committed warehouse                                      *)
(*   today    the day the clock shows                                      *)
(*   started  the batches received so far                                  *)
(*   plan     the batch the client submits, and submits again              *)
(*   procs    per request task: the locals of process_bank_accounts, its   *)
(*            session, its position pc and the result it returned;         *)
(*            db0 remembers the committed warehouse at the task's start    *)
(*   ldb      the committed loans and daily_loan_balances tables            *)
(*   zaimy    the task of process_zaimy: locals, session, position, result *)
(*   http     the request upload_json_body is handling: its envelope, its  *)
(*            position, its response and the Drive uploads it scheduled    *)
(*   conv     a call of convert_currency: arguments, rate table, results   *)
(* The warehouse is empty at first, or holds what a batch of day 0 left.   *)
(***************************************************************************)
VARIABLES db, today, started, procs, plan, ldb, zaimy, http, conv

vars == <<db, today, started, procs, plan, ldb, zaimy, http, conv>>

Procs == {1, 2}

IdleProc ==
    [pc |-> "idle", records |-> <<>>, idx |-> 0, date |-> DateOf(1), date_id |-> 0,
     processed_records |-> <<>>, accounts_processed |-> 0, accounts_updated |-> 0,
     balances_created |-> 0, balances_updated |-> 0, errors_count |-> 0,
     summary_result |-> "unset", sess |-> NewSession, success |-> FALSE,
     error |-> "", batch |-> 0, db0 |-> EmptyDB,
     summary_data |-> {}, existing_summary |-> {}]

Set(p, np) == procs' = [procs EXCEPT ![p] = np]

(***************************************************************************)
(* process_bank_accounts                                                   *)
(***************************************************************************)
\* The locals of process_bank_accounts once the records and the processing
\* date are read, lines 194-283.
Begin(records, day, batch, committed) ==
    [IdleProc EXCEPT
        !.pc = IF records = <<>> THEN "returned" ELSE "dim_date",
        !.error = IF records = <<>> THEN "No records found" ELSE "",
        !.records = records,
        !.date = DateOf(day),
        !.date_id = DateId(DateOf(day)),
        !.batch = batch,
        !.db0 = committed]

\* Lines 194-283: the request is received with a fresh session (get_async_db)
\* and the processing date is read off the clock.  A batch without records
\* returns at once (lines 241-259).
StartBatch(p) ==
    /\ procs[p].pc = "idle"
    /\ started < MaxBatches
    /\ Set(p, Begin(plan, today, started + 1, db))
    /\ started' = started + 1
    /\ UNCHANGED <<http, conv, db, today, plan, ldb, zaimy>>

\* DimDate get-or-create without the lookup: the row is added and flushed
\* whether or not the date is stored.
DimDateAlwaysInserts(q, committed, fault) ==
    LET added == [EmptyDB EXCEPT !.dim_date = {DimDateRow(q.date)}]
        fl == Flush(q.sess, committed, added, FALSE)
    IN IF fault THEN [q EXCEPT !.pc = "except", !.sess = Deactivate(q.sess),
                               !.error = "dim_date"]
       ELSE [q EXCEPT !.pc = "loop", !.sess = fl.s]

\* Lines 307-347: DimDate get-or-create, once per batch.  Any exception is
\* re-raised to the handler of the batch.
DimDateStep(q, committed, fault) ==
    LET view == Overlay(committed, q.sess.tx)
        found == \E r \in view.dim_date : r.date_id = q.date_id
        added == [EmptyDB EXCEPT !.dim_date = {DimDateRow(q.date)}]
        fl == Flush(q.sess, committed, added, FALSE)
    IN IF fault THEN [q EXCEPT !.pc = "except", !.sess = Deactivate(q.sess),
                               !.error = "dim_date"]
       ELSE IF found THEN [q EXCEPT !.pc = "loop"]
       ELSE [q EXCEPT !.pc = "loop", !.sess = fl.s]

GetOrCreateDimDate(p) ==
    /\ procs[p].pc = "dim_date"
    /\ \E fault \in BOOLEAN : Set(p, DimDateStep(procs[p], db, fault))
    /\ UNCHANGED <<http, conv, db, today, started, plan, ldb, zaimy>>

\* existing.attr != value, the value a float: the attribute is a float this
\* session assigned, or the Decimal loaded from the row.
AmountDiffers(obj, attr, value) ==
    IF obj.is_float THEN ~DecEq(attr, value) ELSE ~FloatEqDecimal(value, attr)

\* The except clause of one record, lines 512-518: count and go on.
RecordError(q, s) ==
    [q EXCEPT !.sess = s, !.errors_count = @ + 1, !.idx = @ + 1]

\* The Account upsert without the comparison: an existing Account is always
\* assigned the incoming values and counted as updated.
AccountUpsertAlwaysWrites(q, committed, t, fault) ==
    LET s == q.sess
        found == AccountObjects(s, Overlay(committed, s.tx), t.account_id)
        row == [account_id |-> t.account_id, account_name |-> t.account_name,
                currency |-> t.currency]
        fl == Flush(s, committed, [EmptyDB EXCEPT !.accounts = {row}],
                    fault = "account_flush")
    IN IF ~s.active \/ fault = "account_select"
           THEN [raised |-> TRUE, q |-> [q EXCEPT !.sess = Deactivate(s)]]
       ELSE IF found = {}
           THEN [raised |-> ~fl.ok,
                 q |-> [q EXCEPT !.sess = fl.s,
                                 !.accounts_processed = IF fl.ok THEN @ + 1 ELSE @]]
       ELSE [raised |-> FALSE,
             q |-> [q EXCEPT !.sess.dirty_accounts = OverlayBy(@, {row}, AccountKey),
                             !.accounts_updated = @ + 1]]

\* Lines 431-466: the Account is created and flushed at once, or compared
\* with the transformed record and modified.  [raised, q].
AccountUpsert(q, committed, t, fault) ==
    LET s == q.sess
        found == AccountObjects(s, Overlay(committed, s.tx), t.account_id)
        row == [account_id |-> t.account_id, account_name |-> t.account_name,
                currency |-> t.currency]
        fl == Flush(s, committed, [EmptyDB EXCEPT !.accounts = {row}],
                    fault = "account_flush")
        account == CHOOSE a \in found : TRUE
    IN IF ~s.active \/ fault = "account_select"
           THEN [raised |-> TRUE, q |-> [q EXCEPT !.sess = Deactivate(s)]]
       ELSE IF found = {}
           THEN [raised |-> ~fl.ok,
                 q |-> [q EXCEPT !.sess = fl.s,
                                 !.accounts_processed = IF fl.ok THEN @ + 1 ELSE @]]
       ELSE IF ~PyEq(account.account_name, t.account_name)
                 \/ ~PyEq(account.currency, t.currency)
           THEN [raised |-> FALSE,
                 q |-> [q EXCEPT !.sess.dirty_accounts =
                                     OverlayBy(@, {row}, AccountKey),
                                 !.accounts_updated = @ + 1]]
       ELSE [raised |-> FALSE, q |-> q]

\* Lines 468-500: the fact row of (account, date) is looked up by a SELECT,
\* which sees flushed rows only, and updated or added.  scalar_one_or_none()
\* raises MultipleResultsFound on two rows.  [raised, q].
BalanceUpsert(q, committed, t, fault) ==
    LET s == q.sess
        view == Overlay(committed, s.tx)
        rows == {r \in view.facts :
                    r.account_id = t.account_id /\ r.date_id = q.date_id}
        row == CHOOSE r \in rows : TRUE
        existing_balance ==
            IF \E o \in s.loaded : o.id = row.id
                THEN CHOOSE o \in s.loaded : o.id = row.id
                ELSE FactObject(row)
        updated == [existing_balance EXCEPT !.balance = t.balance,
                                            !.balance_byn = t.balance_byn,
                                            !.is_float = TRUE]
        balance_record ==
            [id |-> <<q.batch, q.idx>>, account_id |-> t.account_id,
             date_id |-> q.date_id, balance |-> t.balance,
             balance_byn |-> t.balance_byn, is_float |-> TRUE]
    IN IF fault = "balance_select"
           THEN [raised |-> TRUE, q |-> [q EXCEPT !.sess = Deactivate(s)]]
       ELSE IF Cardinality(rows) > 1 THEN [raised |-> TRUE, q |-> q]
       ELSE IF rows = {}
           THEN [raised |-> FALSE,
                 q |-> [q EXCEPT !.sess.new_facts = @ \cup {balance_record},
                                 !.balances_created = @ + 1]]
       ELSE IF AmountDiffers(existing_balance, existing_balance.balance, t.balance)
                 \/ AmountDiffers(existing_balance, existing_balance.balance_byn,
                                  t.balance_byn)
           THEN [raised |-> FALSE,
                 q |-> [q EXCEPT !.sess.dirty_facts = OverlayBy(@, {updated}, FactKey),
                                 !.sess.loaded = OverlayBy(@, {updated}, FactKey),
                                 !.balances_updated = @ + 1]]
       ELSE [raised |-> FALSE, q |-> q]

\* Lines 502-510: the periodic flush.  [raised, q].
StrideFlush(q, committed, fault) ==
    LET fl == Flush(q.sess, committed, EmptyDB, fault = "stride_flush")
    IN IF q.idx > 0 /\ q.idx % FlushStride = 0
           THEN [raised |-> ~fl.ok, q |-> [q EXCEPT !.sess = fl.s]]
           ELSE [raised |-> FALSE, q |-> q]

\* Lines 431-518: the storage operations of one record.
StoreRecord(q, committed, t, fault) ==
    LET a == AccountUpsert(q, committed, t, fault)
        b == BalanceUpsert(a.q, committed, t, fault)
        c == StrideFlush(b.q, committed, fault)
    IN IF a.raised THEN RecordError(a.q, a.q.sess)
       ELSE IF b.raised THEN RecordError(b.q, b.q.sess)
       ELSE IF c.raised THEN RecordError(c.q, c.q.sess)
       ELSE [c.q EXCEPT !.idx = @ + 1]

\* Lines 354-518: one iteration of the loop over the records.
RecordStep(q, committed, fault) ==
    LET record == q.records[q.idx + 1]
        key == ResolveKey(record)
        amounts == TransformAmounts(record)
        t == TransformedRecord(record, key.id)
    IN IF ~key.ok THEN [q EXCEPT !.errors_count = @ + 1, !.idx = @ + 1]
       ELSE IF amounts.abort
           THEN [q EXCEPT !.pc = "except", !.error = "InvalidOperation"]
       ELSE StoreRecord([q EXCEPT !.processed_records = Append(@, t)],
                        committed, t, fault)

RecordFaults == {"none", "account_select", "account_flush", "balance_select",
                 "stride_flush"}

ProcessRecord(p) ==
    /\ procs[p].pc = "loop"
    /\ procs[p].idx < Len(procs[p].records)
    /\ \E fault \in RecordFaults : Set(p, RecordStep(procs[p], db, fault))
    /\ UNCHANGED <<http, conv, db, today, started, plan, ldb, zaimy>>

\* The step to the summary with no final flush before it.
FinalFlushSkipped(q, committed, fault) == [q EXCEPT !.pc = "summary"]

\* Lines 520-528: the final flush; its exception is re-raised to the handler
\* of the batch.
FinalFlushStep(q, committed, fault) ==
    LET fl == Flush(q.sess, committed, EmptyDB, fault)
    IN IF fl.ok THEN [q EXCEPT !.pc = "summary", !.sess = fl.s]
       ELSE [q EXCEPT !.pc = "except", !.sess = fl.s, !.error = "final_flush"]

FinalFlush(p) ==
    /\ procs[p].pc = "loop"
    /\ procs[p].idx = Len(procs[p].records)
    /\ \E fault \in BOOLEAN : Set(p, FinalFlushStep(procs[p], db, fault))
    /\ UNCHANGED <<http, conv, db, today, started, plan, ldb, zaimy>>

RECURSIVE SumBalanceByn(_)
SumBalanceByn(rows) ==
    IF rows = {} THEN 0
    ELSE LET r == CHOOSE x \in rows : TRUE
         IN r.balance_byn + SumBalanceByn(rows \ {r})

\* The aggregation with count(account_id) where count(distinct) stands.
SummaryRowCountsRows(facts, date_id) ==
    LET rows == {r \in facts : r.date_id = date_id}
    IN [date_id |-> date_id, total_balance_byn |-> SumBalanceByn(rows),
        account_count |-> Cardinality(rows)]

\* The aggregation query of lines 114-117 over the fact rows of a date.
SummaryRow(facts, date_id) ==
    LET rows == {r \in facts : r.date_id = date_id}
    IN [date_id |-> date_id, total_balance_byn |-> SumBalanceByn(rows),
        account_count |-> Cardinality({r.account_id : r \in rows})]

\* calculate_and_store_daily_summary, lines 94-177: every exception is caught
\* and reported in the returned dictionary.
calculate_and_store_daily_summary(q, committed, fault) ==
    LET s == q.sess
        view == Overlay(committed, s.tx)
        rows == {r \in view.facts : r.date_id = q.date_id}
        row == SummaryRow(view.facts, q.date_id)
        existing_summary == \E r \in view.summary : r.date_id = q.date_id
        fl == Flush(s, committed, [EmptyDB EXCEPT !.summary = {row} \ view.summary],
                    fault = "flush")
    IN IF ~s.active \/ fault = "select"
           THEN [q EXCEPT !.summary_result = "error", !.sess = Deactivate(s)]
       ELSE IF rows = {} THEN [q EXCEPT !.summary_result = "error"]
       ELSE IF ~fl.ok THEN [q EXCEPT !.summary_result = "error", !.sess = fl.s]
       ELSE [q EXCEPT !.sess = fl.s,
                      !.summary_result =
                          IF existing_summary THEN "updated" ELSE "created"]

SummaryFaults == {"none", "select", "flush"}

\* Lines 530-541.
Summarize(p) ==
    /\ procs[p].pc = "summary"
    /\ \E fault \in SummaryFaults :
        Set(p, [calculate_and_store_daily_summary(procs[p], db, fault)
                   EXCEPT !.pc = "commit"])
    /\ UNCHANGED <<http, conv, db, today, started, plan, ldb, zaimy>>

\* The rows of the transaction alone, put in place of the committed ones.
CommittedReplaces(q, committed) ==
    Flush(q.sess, committed, EmptyDB, FALSE).s.tx

\* The committed rows once the task's transaction is committed.
Committed(q, committed) ==
    Overlay(committed, Flush(q.sess, committed, EmptyDB, FALSE).s.tx)

\* Lines 543-550 and 597-628: commit() flushes what is pending and makes the
\* transaction's rows the committed ones; the success result is returned.
Commit(p) ==
    LET q == procs[p]
        fl == Flush(q.sess, db, EmptyDB, FALSE)
    IN /\ q.pc = "commit"
       /\ q.sess.active
       /\ fl.ok
       /\ db' = Committed(q, db)
       /\ Set(p, [q EXCEPT !.pc = "returned", !.success = TRUE,
                           !.sess = [fl.s EXCEPT !.tx = EmptyDB]])
       /\ UNCHANGED <<http, conv, today, started, plan, ldb, zaimy>>

\* commit() raises: the session is inactive, its flush fails, or the storage
\* fails the commit; nothing of the transaction is committed.
CommitFails(p) ==
    LET q == procs[p]
        fl == Flush(q.sess, db, EmptyDB, FALSE)
    IN /\ q.pc = "commit"
       /\ Set(p, [q EXCEPT !.pc = "except", !.error = "commit",
                           !.sess = IF fl.ok THEN Deactivate(q.sess) ELSE fl.s])
       /\ UNCHANGED <<http, conv, db, today, started, plan, ldb, zaimy>>

\* The handler of the batch with commit() where rollback() stands.
HandleBatchErrorCommits(p) ==
    /\ procs[p].pc = "except"
    /\ db' = Overlay(db, procs[p].sess.tx)
    /\ Set(p, [procs[p] EXCEPT !.pc = "returned", !.success = FALSE,
                               !.sess = NewSession])
    /\ UNCHANGED <<http, conv, today, started, plan, ldb, zaimy>>

\* The handler of the batch letting the exception of rollback() through to
\* the caller.
HandleBatchErrorRaises(p) ==
    /\ procs[p].pc = "except"
    /\ \E rollback_raises \in BOOLEAN :
        Set(p, [procs[p] EXCEPT
                  !.pc = IF rollback_raises THEN "raised" ELSE "returned",
                  !.success = FALSE,
                  !.sess = IF rollback_raises THEN Deactivate(FailFlush(@))
                           ELSE NewSession])
    /\ UNCHANGED <<http, conv, db, today, started, plan, ldb, zaimy>>

\* Lines 559-595: the handler of the batch rolls the transaction back (an
\* exception of rollback() itself is caught) and returns the error result
\* with the counts and the transformed records so far.
HandleBatchError(p) ==
    /\ procs[p].pc = "except"
    /\ \E rollback_raises \in BOOLEAN :
        Set(p, [procs[p] EXCEPT
                  !.pc = "returned", !.success = FALSE,
                  !.sess = IF rollback_raises THEN Deactivate(FailFlush(@))
                           ELSE NewSession])
    /\ UNCHANGED <<http, conv, db, today, started, plan, ldb, zaimy>>

\* get_async_db closes the session once the request is answered.
CloseSession(p) ==
    /\ procs[p].pc = "returned"
    /\ Set(p, IdleProc)
    /\ UNCHANGED <<http, conv, db, today, started, plan, ldb, zaimy>>

\* Midnight.  The clock is read at the start of a batch only, so it is moved
\* between batches.
Tick ==
    /\ today < MaxDay
    /\ \A p \in Procs : procs[p].pc = "idle"
    /\ zaimy.pc = "idle"
    /\ today' = today + 1
    /\ UNCHANGED <<http, conv, db, started, procs, plan, ldb, zaimy>>

(***************************************************************************)
(* process_zaimy (app/services/processors/zaimy.py).                       *)
(***************************************************************************)
\* FIELD_MAPPINGS of zaimy.py, the Cyrillic aliases transliterated.
ZAIMY_FIELD_MAPPINGS ==
    [ID |-> <<"ID", "id", "id_ru", "identifikator">>,
     contract_number |-> <<"contract_number", "contractNumber", "Data dogovora",
                           "Nomer dogovora">>,
     initial_amount |-> <<"initial_amount", "initialAmount", "nachalnaya_summa",
                          "Nachalnaya summa", "Summa zaima">>,
     duty |-> <<"Dolg">>,
     currency |-> <<"currency", "valyuta", "Valyuta", "Valyuta zaima">>,
     interest_rate |-> <<"interest_rate", "interestRate", "procentnaya_stavka",
                         "Procentnaya stavka">>,
     status |-> <<"status", "status_ru", "Status">>]

\* get_field_value of zaimy.py.
zaimy_get_field_value(record, field_name, default) ==
    LET names == ZAIMY_FIELD_MAPPINGS[field_name]
        hits == {i \in 1..Len(names) : names[i] \in DOMAIN record}
    IN IF hits = {} THEN default
       ELSE record[names[CHOOSE i \in hits : \A j \in hits : i <= j]]

\* str(x) of an ID: a str, a whole number or None.
PyStr(v) ==
    IF IsStr(v) THEN v.s
    ELSE IF IsNum(v) THEN IntToChars(v.m \div Pow10(v.e))
    ELSE <<"N", "o", "n", "e">>

\* convert_currency of zaimy.py, lines 71-78.
zaimy_convert_currency(balance_currency, amount) ==
    IF HasRate(balance_currency)
        THEN DecMul(amount, EXCHANGE_RATES[balance_currency.s])
        ELSE amount

\* Numeric(19, 4): the value a column stores, in ten-thousandths.
ToUnits4(d) == (2 * d.m * 10000 + Pow10(d.e)) \div (2 * Pow10(d.e))

\* date(2000, 1, 1) and date(2000, 12, 31)
Date20000101 == [year |-> 2000, month |-> 1, day |-> 1]
Date20001231 == [year |-> 2000, month |-> 12, day |-> 31]

\* Lines 242-251 and 351-356: the debt in BYN.
DutyByn(loan_currency_value, duty_decimal) ==
    IF PyEq(loan_currency_value, StrV(BLR)) \/ PyEq(loan_currency_value, StrV(BYN))
        THEN duty_decimal
        ELSE zaimy_convert_currency(loan_currency_value, duty_decimal)

\* Lines 229-267: loan_data of a record, [err, d]; err when a Decimal()
\* raises.
LoanData(record) ==
    LET loan_id == PyStr(zaimy_get_field_value(record, "ID", NullV))
        initial_amount == PyDecimal(zaimy_get_field_value(record, "initial_amount",
                                                          NumV(0, 0)))
        loan_currency_value == zaimy_get_field_value(record, "currency", StrV(BYN))
        duty == PyDecimal(zaimy_get_field_value(record, "duty", NumV(0, 0)))
        interest_rate == PyDecimal(zaimy_get_field_value(record, "interest_rate",
                                                          NumV(0, 0)))
    IN [err |-> initial_amount.err # "" \/ duty.err # "" \/ interest_rate.err # "",
        d |-> [source_loan_id |-> loan_id,
               contract_number |->
                   zaimy_get_field_value(record, "contract_number",
                       StrV(<<"L", "O", "A", "N", "-">> \o loan_id)),
               contract_date |-> Date20000101,
               initial_amount |-> initial_amount.d,
               loan_currency |-> loan_currency_value,
               duty_money |-> duty.d,
               duty_byn_money |-> DutyByn(loan_currency_value, duty.d),
               interest_rate |-> interest_rate.d,
               start_date |-> Date20000101,
               end_date |-> Date20001231,
               status |-> zaimy_get_field_value(record, "status",
                                                StrV(<<"a", "c", "t", "i", "v", "e">>))]]

\* The loans and daily_loan_balances tables.  A loans row carries the mapped
\* columns; amounts of Numeric(19, 4) columns are whole ten-thousandths.
EmptyLoans == [loans |-> {}, balances |-> {}]

LoanKey == "id"
LoanBalanceKey == "id"

LoanOverlay(base, tx) ==
    [loans |-> OverlayBy(base.loans, tx.loans, LoanKey),
     balances |-> OverlayBy(base.balances, tx.balances, LoanBalanceKey)]

\* The Loan object a row is loaded as.  extra: the attributes that are no
\* mapped column (loan_currency, duty_money, duty_byn_money, status) exist
\* on the object, setattr having put them there.
LoanObject(r) ==
    [id |-> r.id, source_loan_id |-> r.source_loan_id,
     contract_number |-> r.contract_number, contract_date |-> r.contract_date,
     initial_amount |-> Dec(r.initial_amount, 4),
     interest_rate |-> CentsDec(r.interest_rate),
     start_date |-> r.start_date, end_date |-> r.end_date,
     updated_at |-> r.updated_at, extra |-> FALSE,
     loan_currency |-> NullV, duty_money |-> Dec(0, 0),
     duty_byn_money |-> Dec(0, 0), status |-> NullV]

\* The row a Loan object is stored as.
LoanRow(o) ==
    [id |-> o.id, source_loan_id |-> o.source_loan_id,
     contract_number |-> o.contract_number, contract_date |-> o.contract_date,
     initial_amount |-> ToUnits4(o.initial_amount),
     interest_rate |-> ToCents(o.interest_rate),
     start_date |-> o.start_date, end_date |-> o.end_date,
     updated_at |-> o.updated_at]

\* loans.contract_number String(100) NOT NULL
LoanRowOk(r) == IsStr(r.contract_number) /\ Len(r.contract_number.s) <= 100

\* Lines 274-278: any(getattr(existing_loan, key) != value ...) over the keys
\* of loan_data in their order, updated_at left out: "changed", "same", or
\* "AttributeError" when the scan reaches loan_currency on an object that
\* has no such attribute.
has_changes(existing_loan, loan_data) ==
    IF \/ existing_loan.source_loan_id # loan_data.source_loan_id
       \/ ~PyEq(existing_loan.contract_number, loan_data.contract_number)
       \/ existing_loan.contract_date # loan_data.contract_date
       \/ ~DecEq(existing_loan.initial_amount, loan_data.initial_amount)
        THEN "changed"
    ELSE IF ~existing_loan.extra THEN "AttributeError"
    ELSE IF \/ ~PyEq(existing_loan.loan_currency, loan_data.loan_currency)
            \/ existing_loan.duty_money # loan_data.duty_money
            \/ existing_loan.duty_byn_money # loan_data.duty_byn_money
            \/ ~DecEq(existing_loan.interest_rate, loan_data.interest_rate)
            \/ existing_loan.start_date # loan_data.start_date
            \/ existing_loan.end_date # loan_data.end_date
            \/ ~PyEq(existing_loan.status, loan_data.status)
        THEN "changed"
    ELSE "same"

\* Lines 282-283: setattr of every key of loan_data; updated_at is the time
\* of the batch.
SetLoanAttrs(existing_loan, loan_data, now) ==
    [id |-> existing_loan.id, source_loan_id |-> loan_data.source_loan_id,
     contract_number |-> loan_data.contract_number,
     contract_date |-> loan_data.contract_date,
     initial_amount |-> loan_data.initial_amount,
     interest_rate |-> loan_data.interest_rate,
     start_date |-> loan_data.start_date, end_date |-> loan_data.end_date,
     updated_at |-> now, extra |-> TRUE,
     loan_currency |-> loan_data.loan_currency,
     duty_money |-> loan_data.duty_money,
     duty_byn_money |-> loan_data.duty_byn_money, status |-> loan_data.status]

\* The session of process_zaimy.  tx: rows flushed and not committed.
\* dirty_loans: ids of the Loan objects modified and not flushed.
\* new_balances, dirty_balances: DailyLoanBalance rows added, modified and
\* not flushed.
NewLoanSession ==
    [active |-> TRUE, tx |-> EmptyLoans, dirty_loans |-> {}, new_balances |-> {},
     dirty_balances |-> {}]

\* uq_daily_loan_balance_loan_date
LoanBalancesUnique(rows) ==
    \A r1, r2 \in rows :
        (r1.loan_id = r2.loan_id /\ r1.date_id = r2.date_id) => r1 = r2

\* session.flush() of process_zaimy: [ok, s].  The Loan objects are those of
\* existing_loans.
LoanFlush(s, existing_loans, committed, fault) ==
    LET w == [loans |-> {LoanRow(o) : o \in {x \in existing_loans :
                                                x.id \in s.dirty_loans}},
              balances |-> s.new_balances \cup s.dirty_balances]
        after == LoanOverlay(LoanOverlay(committed, s.tx), w)
        failed == [active |-> FALSE, tx |-> EmptyLoans, dirty_loans |-> {},
                   new_balances |-> {}, dirty_balances |-> {}]
    IN IF w = EmptyLoans THEN [ok |-> TRUE, s |-> s]
       ELSE IF \/ ~s.active \/ fault
               \/ \E r \in w.loans : ~LoanRowOk(r)
               \/ ~LoanBalancesUnique(after.balances)
           THEN [ok |-> FALSE, s |-> failed]
       ELSE [ok |-> TRUE,
             s |-> [s EXCEPT !.tx = LoanOverlay(s.tx, w), !.dirty_loans = {},
                             !.new_balances = {}, !.dirty_balances = {}]]

IdleZaimy ==
    [pc |-> "idle", records |-> <<>>, idx |-> 0, existing_loans |-> {},
     processed_records |-> <<>>, loans_processed |-> 0, loans_updated |-> 0,
     loans_created |-> 0, errors_count |-> 0, processed_date_ids |-> {},
     sess |-> NewLoanSession, error |-> "", batch |-> 0, ldb0 |-> EmptyLoans]

\* Lines 164-199: the request is received; a batch without records returns
\* at once.
ZaimyStart ==
    /\ zaimy.pc = "idle"
    /\ started < MaxBatches
    /\ LET records == plan IN
        zaimy' = [IdleZaimy EXCEPT
                    !.pc = IF records = <<>> THEN "returned" ELSE "load",
                    !.error = IF records = <<>> THEN "no records" ELSE "",
                    !.records = records, !.batch = started + 1, !.ldb0 = ldb]
    /\ started' = started + 1
    /\ UNCHANGED <<http, conv, db, today, procs, plan, ldb>>

\* Lines 202-207: the existing loans of the batch's IDs, in one query.
ZaimyLoadExisting ==
    /\ zaimy.pc = "load"
    /\ \E fault \in BOOLEAN :
        LET ids == {PyStr(zaimy_get_field_value(zaimy.records[i], "ID", NullV)) :
                       i \in 1..Len(zaimy.records)}
        IN zaimy' =
            IF fault THEN [zaimy EXCEPT !.pc = "except", !.error = "select",
                                        !.sess.active = FALSE]
            ELSE [zaimy EXCEPT !.pc = "loans",
                               !.existing_loans =
                                   {LoanObject(r) : r \in {x \in ldb.loans :
                                                        x.source_loan_id \in ids}}]
    /\ UNCHANGED <<http, conv, db, today, started, procs, plan, ldb>>

\* The except clause of a record that leaves the error counter alone.
LoanRecordErrorUncounted(q) == [q EXCEPT !.idx = @ + 1]

\* The except clause of one record, lines 303-307 and 383-387.
LoanRecordError(q) == [q EXCEPT !.errors_count = @ + 1, !.idx = @ + 1]

\* Lines 209-307: one iteration of the loop over the records for Loan.
\* Loan(**loan_data) raises TypeError, loan_currency being no attribute of
\* the mapped class, so no Loan is added.
LoanStep(q, committed, fault) ==
    LET ld == LoanData(q.records[q.idx + 1])
        loan_data == ld.d
        found == {o \in q.existing_loans : o.source_loan_id = loan_data.source_loan_id}
        existing_loan == CHOOSE o \in found : TRUE
        changes == has_changes(existing_loan, loan_data)
        updated == SetLoanAttrs(existing_loan, loan_data, q.batch)
        q1 == IF changes = "changed"
                  THEN [q EXCEPT !.existing_loans = (@ \ {existing_loan}) \cup {updated},
                                 !.sess.dirty_loans = @ \cup {existing_loan.id},
                                 !.loans_updated = @ + 1]
                  ELSE q
        q2 == [q1 EXCEPT !.processed_records = Append(@, loan_data),
                         !.loans_processed = @ + 1]
        fl == LoanFlush(q2.sess, q2.existing_loans, committed, fault)
    IN IF ld.err \/ found = {} \/ changes = "AttributeError" THEN LoanRecordError(q)
       ELSE IF q.idx > 0 /\ q.idx % FlushStride = 0
           THEN IF fl.ok THEN [q2 EXCEPT !.sess = fl.s, !.idx = @ + 1]
                ELSE LoanRecordError([q2 EXCEPT !.sess = fl.s])
       ELSE [q2 EXCEPT !.idx = @ + 1]

ZaimyProcessLoan ==
    /\ zaimy.pc = "loans"
    /\ zaimy.idx < Len(zaimy.records)
    /\ zaimy' = LoanStep(zaimy, ldb, FALSE)
    /\ UNCHANGED <<http, conv, db, today, started, procs, plan, ldb>>

\* flush() and commit() on the session of process_zaimy: the transaction's
\* rows become committed ones, or the call raises to the handler of the
\* batch and commits nothing.
LoanCommit(q, committed, fault, next, error) ==
    LET fl == LoanFlush(q.sess, q.existing_loans, committed, FALSE)
    IN IF fault \/ ~q.sess.active \/ ~fl.ok
           THEN [ldb |-> committed,
                 q |-> [q EXCEPT !.pc = "except", !.error = error,
                                 !.sess = [fl.s EXCEPT !.active = FALSE,
                                                       !.tx = EmptyLoans]]]
       ELSE [ldb |-> LoanOverlay(committed, fl.s.tx),
             q |-> [q EXCEPT !.pc = next, !.idx = 0,
                             !.sess = [fl.s EXCEPT !.tx = EmptyLoans]]]

\* Lines 309-311: the Loan changes are flushed and committed.
ZaimyCommitLoans ==
    /\ zaimy.pc = "loans"
    /\ zaimy.idx = Len(zaimy.records)
    /\ \E fault \in BOOLEAN :
        LET c == LoanCommit(zaimy, ldb, fault, "balances", "commit_loans")
        IN ldb' = c.ldb /\ zaimy' = c.q
    /\ UNCHANGED <<http, conv, db, today, started, procs, plan>>

RECURSIVE SumCurrentDebt(_)
SumCurrentDebt(rows) ==
    IF rows = {} THEN 0
    ELSE LET r == CHOOSE x \in rows : TRUE
         IN r.current_debt_byn + SumCurrentDebt(rows \ {r})

\* Lines 317-387: one iteration of the loop over the records for
\* DailyLoanBalance.  The date is looked up in dim_date and never created.
LoanBalanceStep(q, committed, dim_date, day, fault) ==
    LET s == q.sess
        record == q.records[q.idx + 1]
        view == LoanOverlay(committed, s.tx)
        loan_id_from_source == PyStr(zaimy_get_field_value(record, "ID", NullV))
        loans == {r \in view.loans : r.source_loan_id = loan_id_from_source}
        current_loan == CHOOSE r \in loans : TRUE
        dates == {r.date_id : r \in {x \in dim_date : x.date = DateOf(day)}}
        date_id == CHOOSE d \in dates : TRUE
        q1 == [q EXCEPT !.processed_date_ids = @ \cup {date_id}]
        duty == PyDecimal(zaimy_get_field_value(record, "duty", NumV(0, 0)))
        calculated_duty_byn_money ==
            DutyByn(zaimy_get_field_value(record, "currency", StrV(BYN)), duty.d)
        rows == {r \in view.balances :
                    r.loan_id = current_loan.id /\ r.date_id = date_id}
        row == CHOOSE r \in rows : TRUE
        existing_daily_balance ==
            IF \E o \in s.dirty_balances : o.id = row.id
                THEN CHOOSE o \in s.dirty_balances : o.id = row.id
                ELSE row
        new_daily_balance ==
            [id |-> <<q.batch, q.idx>>, loan_id |-> current_loan.id,
             date_id |-> date_id,
             current_debt_byn |-> ToUnits4(calculated_duty_byn_money),
             total_repaid_byn |-> 0]
    IN IF ~s.active \/ fault
           THEN LoanRecordError([q EXCEPT !.sess.active = FALSE,
                                          !.sess.tx = EmptyLoans])
       ELSE IF loans = {} \/ dates = {} THEN [q EXCEPT !.idx = @ + 1]
       ELSE IF duty.err # "" THEN LoanRecordError(q1)
       ELSE IF rows = {}
           THEN [q1 EXCEPT !.sess.new_balances = @ \cup {new_daily_balance},
                           !.idx = @ + 1]
       ELSE IF ~DecEq(Dec(existing_daily_balance.current_debt_byn, 4),
                      calculated_duty_byn_money)
           THEN [q1 EXCEPT !.sess.dirty_balances =
                               OverlayBy(@, {[existing_daily_balance EXCEPT
                                   !.current_debt_byn =
                                       ToUnits4(calculated_duty_byn_money)]},
                                   LoanBalanceKey),
                           !.idx = @ + 1]
       ELSE [q1 EXCEPT !.idx = @ + 1]

ZaimyProcessBalance ==
    /\ zaimy.pc = "balances"
    /\ zaimy.idx < Len(zaimy.records)
    /\ \E fault \in BOOLEAN :
        zaimy' = LoanBalanceStep(zaimy, ldb, db.dim_date, today, fault)
    /\ UNCHANGED <<http, conv, db, today, started, procs, plan, ldb>>

\* Lines 389-391: the DailyLoanBalance rows are flushed and committed.
ZaimyCommitBalances ==
    /\ zaimy.pc = "balances"
    /\ zaimy.idx = Len(zaimy.records)
    /\ \E fault \in BOOLEAN :
        LET c == LoanCommit(zaimy, ldb, fault, "totals", "commit_balances")
        IN ldb' = c.ldb /\ zaimy' = c.q
    /\ UNCHANGED <<http, conv, db, today, started, procs, plan>>

\* Lines 395-429: for every processed date, total_repaid_byn of all its rows
\* is set to the sum of their current_debt_byn by one UPDATE; an exception
\* is caught and the next date is taken: the statements of the transaction
\* are lost, and the session, which only a failed flush invalidates, goes on
\* to the commit of line 425.  Without a processed date the function
\* returns with no further commit.
UpdateTotals(q, committed, fault) ==
    LET s == q.sess
        view == LoanOverlay(committed, s.tx)
        total(date_id) ==
            SumCurrentDebt({r \in view.balances : r.date_id = date_id})
        rows == {[r EXCEPT !.total_repaid_byn = total(r.date_id)] :
                    r \in {x \in view.balances : x.date_id \in q.processed_date_ids}}
    IN IF q.processed_date_ids = {} THEN [q EXCEPT !.pc = "returned"]
       ELSE IF ~s.active \/ fault
           THEN [q EXCEPT !.pc = "commit_totals", !.sess.tx = EmptyLoans]
       ELSE [q EXCEPT !.pc = "commit_totals",
                      !.sess.tx.balances = OverlayBy(@, rows, LoanBalanceKey)]

ZaimyUpdateTotals ==
    /\ zaimy.pc = "totals"
    /\ \E fault \in BOOLEAN : zaimy' = UpdateTotals(zaimy, ldb, fault)
    /\ UNCHANGED <<http, conv, db, today, started, procs, plan, ldb>>

\* Line 425: the total_repaid_byn updates are committed and the result is
\* returned.
ZaimyCommitTotals ==
    /\ zaimy.pc = "commit_totals"
    /\ \E fault \in BOOLEAN :
        LET c == LoanCommit(zaimy, ldb, fault, "returned", "commit_totals")
        IN ldb' = c.ldb /\ zaimy' = c.q
    /\ UNCHANGED <<http, conv, db, today, started, procs, plan>>

\* Lines 451-465: the handler of the batch rolls back the open transaction
\* and returns the error result: zero counts and no records.
ZaimyHandleError ==
    /\ zaimy.pc = "except"
    /\ zaimy' = [zaimy EXCEPT !.pc = "returned", !.sess = NewLoanSession,
                              !.loans_processed = 0, !.loans_updated = 0,
                              !.loans_created = 0, !.processed_records = <<>>]
    /\ UNCHANGED <<http, conv, db, today, started, procs, plan, ldb>>

\* get_async_db closes the session once the request is answered.
ZaimyClose ==
    /\ zaimy.pc = "returned"
    /\ zaimy' = IdleZaimy
    /\ UNCHANGED <<http, conv, db, today, started, procs, plan, ldb>>

(***************************************************************************)
(* upload_json_body (app/api/endpoints/json_upload.py) and JsonProcessor   *)
(* (app/services/json_processor.py).  The envelope is the json_data the    *)
(* handler passes on; the parsing of the request body into the payload     *)
(* model happens before the handler and is not part of the model.          *)
(***************************************************************************)
\* JSON containers, next to the scalars NullV, NumV and StrV.
JList(items) == [t |-> "list", items |-> items]
JDict(d) == [t |-> "dict", d |-> d]
IsList(v) == v.t = "list"
IsDict(v) == v.t = "dict"

\* The kinds registered with file_processor_factory when
\* app.services.processors is imported: payments_partners and bank_accounts.
SupportedTypes == {"PaymentsPartners", "BankAccounts"}

\* FileProcessorFactory.is_supported_type
is_supported_type(file_type) == file_type \in SupportedTypes

Invalid(file_type) == [ok |-> FALSE, file_type |-> file_type, records |-> <<>>]

\* Every envelope the checks refuse is taken as an empty BankAccounts batch.
ValidateAcceptsAll(json_data) ==
    [ok |-> TRUE, file_type |-> "BankAccounts", records |-> <<>>]

\* JsonProcessor.validate_json_structure: [ok, file_type, records].
validate_json_structure(json_data) ==
    IF ~IsDict(json_data) THEN Invalid("")
    ELSE IF Cardinality(DOMAIN json_data.d) # 1 THEN Invalid("")
    ELSE LET file_type == CHOOSE k \in DOMAIN json_data.d : TRUE
             records == json_data.d[file_type]
         IN IF ~is_supported_type(file_type) THEN Invalid(file_type)
            ELSE IF ~IsList(records) THEN Invalid(file_type)
            ELSE IF \E i \in 1..Len(records.items) : ~IsDict(records.items[i])
                THEN Invalid(file_type)
            ELSE [ok |-> TRUE, file_type |-> file_type,
                  records |-> [i \in 1..Len(records.items) |-> records.items[i].d]]

\* process_payments_partners: [metadata, records]; no storage is involved.
process_payments_partners(records) ==
    [metadata |-> [processor |-> "payments_partners_processor", version |-> "1.0"],
     records |-> [i \in 1..Len(records) |->
                     [original_data |-> records[i], processed |-> TRUE,
                      processor_type |-> "PaymentsPartners"]]]

\* etl_stats of the metadata process_bank_accounts returns.
EtlStats(q) ==
    [accounts_processed |-> q.accounts_processed,
     accounts_updated |-> q.accounts_updated,
     balances_created |-> q.balances_created,
     balances_updated |-> q.balances_updated,
     errors |-> q.errors_count,
     daily_summary |-> q.summary_result,
     etl_performed |-> TRUE]

\* The pair process_bank_accounts returns: lines 241-259 without records,
\* lines 572-595 after the handler of the batch, lines 601-628 on success.
BankAccountsResult(q) ==
    [metadata |->
        IF q.success
            THEN [file_type |-> "BankAccounts",
                  record_count |-> Len(q.processed_records),
                  success |-> TRUE, etl_stats |-> EtlStats(q)]
        ELSE IF q.records = <<>>
            THEN [file_type |-> "BankAccounts", record_count |-> 0,
                  success |-> FALSE, error |-> q.error,
                  etl_stats |-> [accounts_processed |-> 0, balances_created |-> 0,
                                 etl_performed |-> FALSE]]
        ELSE [file_type |-> "BankAccounts", record_count |-> Len(q.records),
              success |-> FALSE, error |-> q.error, etl_stats |-> EtlStats(q)],
     records |-> q.processed_records]

\* process_json_data, lines 202-247: the base metadata updated with the
\* metadata of the processor.
ProcessorOutcome(file_type, record_count, now, result) ==
    [metadata |-> result.metadata @@
                    [file_type |-> file_type, record_count |-> record_count,
                     processed_at |-> now],
     records |-> result.records]

\* JsonMetadata (app/schemas/json_upload.py): the declared fields are kept,
\* with their defaults, and any other keyword is ignored.
JsonMetadataFields == {"file_type", "processor", "version", "record_count", "processed_at"}

JsonMetadata(metadata) ==
    [k \in DOMAIN metadata \cap JsonMetadataFields |-> metadata[k]]
        @@ [processor |-> "", version |-> "1.0"]

\* "{'FILE_TYPE': [...]}", the first word in Russian in the source.
ExpectedStructure == "{'FILE_TYPE': [...]}"

\* Lines 141-156: the answer to an envelope process_json_data refuses.
RejectedResponse ==
    [status_code |-> 422, status |-> "error",
     supported_file_types |-> SupportedTypes,
     expected_structure |-> ExpectedStructure]

\* Lines 161-209: the answer once process_json_data has returned.
UploadResponse(outcome, service) ==
    [status_code |-> 200,
     status |-> IF service THEN "success" ELSE "success_with_warnings",
     drive_upload_status |-> IF service THEN "pending" ELSE "skipped_init_error",
     metadata |-> JsonMetadata(outcome.metadata),
     records |-> outcome.records]

NoResponse == [status_code |-> 0]

\* service: drive_service.service is initialised.  scheduled: the requests
\* whose background upload is waiting.  uploaded: the uploads that ran.
IdleHttp ==
    [pc |-> "idle", json_data |-> NullV, request |-> 0, response |-> NoResponse,
     service |-> TRUE, scheduled |-> {}, uploaded |-> {}, db0 |-> EmptyDB]

\* The envelopes a client sends with the batch `records`: the BankAccounts
\* and PaymentsPartners envelopes of it and one envelope for every check of
\* validate_json_structure.
RecordList(records) == JList([i \in 1..Len(records) |-> JDict(records[i])])

Envelopes(records) ==
    {JDict("BankAccounts" :> RecordList(records)),
     JDict("PaymentsPartners" :> RecordList(records)),
     StrV(<<"x">>),
     JDict([k \in {} |-> NullV]),
     JDict("BankAccounts" :> RecordList(records)
             @@ "PaymentsPartners" :> RecordList(records)),
     JDict("Zaimy" :> RecordList(records)),
     JDict("BankAccounts" :> NullV),
     JDict("BankAccounts" :> JList(Append(RecordList(records).items, NumV(1, 0))))}

\* Lines 89-124: a request arrives with its own session.
UploadReceive ==
    /\ http.pc = "idle"
    /\ procs[1].pc = "idle"
    /\ started < MaxBatches
    /\ \E json_data \in Envelopes(plan) :
        http' = [http EXCEPT !.pc = "process", !.json_data = json_data,
                             !.request = started + 1, !.response = NoResponse,
                             !.db0 = db]
    /\ started' = started + 1
    /\ UNCHANGED <<db, today, procs, plan, ldb, zaimy, conv>>

\* Schedules the background upload when the Drive service is there,
\* lines 167-181.
Schedule(h) == IF h.service THEN h.scheduled \cup {h.request} ELSE h.scheduled

\* process_json_data up to the call of the processor, lines 183-232, and
\* the handler's answer to its exception, lines 141-156.  The synchronous
\* processor returns at once and the request is answered.
ProcessJsonData ==
    /\ http.pc = "process"
    /\ LET v == validate_json_structure(http.json_data)
           outcome == ProcessorOutcome(v.file_type, Len(v.records), today,
                                       process_payments_partners(v.records))
       IN IF ~v.ok
              THEN /\ http' = [http EXCEPT !.pc = "responded",
                                           !.response = RejectedResponse]
                   /\ UNCHANGED procs
          ELSE IF v.file_type = "BankAccounts"
              THEN /\ http' = [http EXCEPT !.pc = "etl"]
                   /\ Set(1, Begin(v.records, today, http.request, db))
          ELSE /\ http' = [http EXCEPT
                             !.pc = "responded",
                             !.response = UploadResponse(outcome, http.service),
                             !.scheduled = Schedule(http)]
               /\ UNCHANGED procs
    /\ UNCHANGED <<db, today, started, plan, ldb, zaimy, conv>>

\* process_bank_accounts has returned: lines 233-247 of process_json_data
\* and lines 134-209 of the handler.
UploadRespond ==
    /\ http.pc = "etl"
    /\ procs[1].pc = "returned"
    /\ LET q == procs[1]
           outcome == ProcessorOutcome("BankAccounts", Len(q.records), today,
                                       BankAccountsResult(q))
       IN http' = [http EXCEPT !.pc = "responded",
                               !.response = UploadResponse(outcome, http.service),
                               !.scheduled = Schedule(http)]
    /\ UNCHANGED <<db, today, started, procs, plan, ldb, zaimy, conv>>

\* _upload_to_drive_background, lines 65-85: the upload succeeds or fails;
\* every outcome is logged only.
UploadToDrive ==
    /\ \E r \in http.scheduled, ok \in BOOLEAN :
        http' = [http EXCEPT !.scheduled = @ \ {r},
                             !.uploaded = @ \cup {[request |-> r, ok |-> ok]}]
    /\ UNCHANGED <<db, today, started, procs, plan, ldb, zaimy, conv>>

\* The request is over: get_async_db closes its session.
UploadClose ==
    /\ http.pc = "responded"
    /\ http' = [http EXCEPT !.pc = "idle"]
    /\ Set(1, IdleProc)
    /\ UNCHANGED <<db, today, started, plan, ldb, zaimy, conv>>

(***************************************************************************)
(* Calls of convert_currency, of bank_accounts.py and of zaimy.py, with    *)
(* any JSON scalar as the currency code.                                   *)
(***************************************************************************)
\* The rate table is read by the calls and assigned by no code after the
\* module is loaded.
IdleConv ==
    [pc |-> "idle", code |-> NullV, amount |-> Dec(0, 0), rates |-> EXCHANGE_RATES,
     bank |-> Dec(0, 0), zaimy |-> Dec(0, 0)]

\* Codes of the table and codes outside it: the reporting currency, an
\* unknown code, a code in lower case, no code, a number.
ConvCodes ==
    {StrV(c) : c \in RateCodes \cup {BYN, BLR, <<"X", "X", "X">>, <<"u", "s", "d">>}}
        \cup {NullV, NumV(840, 0)}

ConvAmounts ==
    {Dec(m, e) : m \in {0, 1, 100, 500, 12345}, e \in {0, 2}} \cup {Dec(0 - 5050, 2)}

ConvertCall ==
    /\ conv.pc = "idle"
    /\ \E code \in ConvCodes, amount \in ConvAmounts :
        conv' = [conv EXCEPT !.pc = "called", !.code = code, !.amount = amount,
                             !.bank = convert_currency(code, amount),
                             !.zaimy = zaimy_convert_currency(code, amount)]
    /\ UNCHANGED <<db, today, started, procs, plan, ldb, zaimy, http>>

\* The same call once more.
ConvertAgain ==
    /\ conv.pc = "called"
    /\ conv' = [conv EXCEPT !.pc = "repeated",
                            !.bank = convert_currency(conv.code, conv.amount),
                            !.zaimy = zaimy_convert_currency(conv.code, conv.amount)]
    /\ UNCHANGED <<db, today, started, procs, plan, ldb, zaimy, http>>

ConvertDone ==
    /\ conv.pc = "repeated"
    /\ conv' = IdleConv
    /\ UNCHANGED <<db, today, started, procs, plan, ldb, zaimy, http>>

\* The loan records the model's batches are drawn from.
LoanChanged ==
    ("ID" :> StrV(<<"L", "1">>) @@ "contract_number" :> StrV(<<"C", "-", "2">>)
        @@ "initial_amount" :> NumV(1000, 0) @@ "currency" :> StrV(USD)
        @@ "Dolg" :> NumV(100, 0))
LoanRepaid ==
    ("ID" :> StrV(<<"L", "1">>) @@ "contract_number" :> StrV(<<"C", "-", "2">>)
        @@ "initial_amount" :> NumV(1000, 0) @@ "currency" :> StrV(USD)
        @@ "Dolg" :> NumV(40, 0))
LoanNumericId ==
    ("id" :> NumV(2, 0) @@ "initial_amount" :> StrV(<<"5", "0", "0">>)
        @@ "Dolg" :> StrV(<<"5", "0", ".", "5">>))
LoanUnknown == ("ID" :> StrV(<<"L", "9">>) @@ "Dolg" :> NumV(7, 0))
LoanBadDuty == ("ID" :> StrV(<<"L", "1">>) @@ "Dolg" :> StrV(<<"a", "b", "c">>))

LoanNoKey ==
    ("contract_number" :> StrV(<<"C", "-", "2">>) @@ "Dolg" :> NumV(7, 0))

LoanRecords ==
    {LoanChanged, LoanRepaid, LoanNumericId, LoanUnknown, LoanBadDuty, LoanNoKey}

LoanBatches == SeqsUpTo(LoanRecords, MaxLen)

\* Loans loaded into the warehouse before any batch: process_zaimy updates
\* loans and cannot add one.
Date20240517 == [year |-> 2024, month |-> 5, day |-> 17]

SeedLoan(id, source_loan_id, contract_number) ==
    [id |-> id, source_loan_id |-> source_loan_id,
     contract_number |-> StrV(contract_number), contract_date |-> Date20240517,
     initial_amount |-> 1000 * 10000, interest_rate |-> 0,
     start_date |-> Date20240517, end_date |-> Date20240517, updated_at |-> 0]

SeedLoans ==
    [loans |-> {SeedLoan(1, <<"L", "1">>, <<"C", "-", "1">>),
                SeedLoan(2, <<"2">>, <<"L", "O", "A", "N", "-", "2">>)},
     balances |-> {}]

\* initialize_dim_date: the dates of the model's clock are seeded, or the
\* table is empty.
SeededDates == {DimDateRow(DateOf(d)) : d \in 1..MaxDay}

InitZaimy ==
    /\ db \in {EmptyDB, [EmptyDB EXCEPT !.dim_date = SeededDates]}
    /\ today = 1
    /\ started = 0
    /\ procs = [p \in Procs |-> IdleProc]
    /\ plan \in LoanBatches
    /\ ldb = SeedLoans
    /\ zaimy = IdleZaimy
    /\ http = IdleHttp
    /\ conv = IdleConv

\* process_bank_accounts run from its first line to its commit with no
\* storage fault: the warehouse it leaves.
RECURSIVE RunRecords(_, _)
RunRecords(q, committed) ==
    IF q.pc # "loop" \/ q.idx = Len(q.records) THEN q
    ELSE RunRecords(RecordStep(q, committed, "none"), committed)

RunBatchAs(records, day, batch, committed) ==
    LET q1 == DimDateStep(Begin(records, day, batch, committed), committed, FALSE)
        q2 == FinalFlushStep(RunRecords(q1, committed), committed, FALSE)
        q3 == calculate_and_store_daily_summary(q2, committed, "none")
    IN Committed(q3, committed)

RunBatch(records, day, committed) == RunBatchAs(records, day, 0, committed)

\* The batch of day 0: an account the later batches carry under another name
\* and currency, and an account they never carry.
RecEarlier42 ==
    ("ID" :> NumV(42, 0) @@ "account_name" :> StrV(<<"O", "l", "d">>)
        @@ "currency" :> StrV(EUR) @@ "balance" :> NumV(10, 0)
        @@ "balance_byn" :> NumV(35, 0))
RecEarlier99 ==
    ("ID" :> StrV(<<"9", "9">>) @@ "balance" :> NumV(1, 0)
        @@ "balance_byn" :> NumV(1, 0))

EarlierDB == RunBatch(<<RecEarlier42, RecEarlier99>>, 0, EmptyDB)

Init ==
    /\ db \in {EmptyDB, EarlierDB}
    /\ today = 1
    /\ started = 0
    /\ procs = [p \in Procs |-> IdleProc]
    /\ plan \in Batches
    /\ ldb = EmptyLoans
    /\ zaimy = IdleZaimy
    /\ http = IdleHttp
    /\ conv = IdleConv

\* One request after the other: task 1 handles every batch.
Next ==
    \/ StartBatch(1)
    \/ GetOrCreateDimDate(1)
    \/ ProcessRecord(1)
    \/ FinalFlush(1)
    \/ Summarize(1)
    \/ Commit(1)
    \/ CommitFails(1)
    \/ HandleBatchError(1)
    \/ CloseSession(1)
    \/ Tick

Spec == Init /\ [][Next]_vars

\* One Zaimy request after the other.
NextZaimy ==
    \/ ZaimyStart
    \/ ZaimyLoadExisting
    \/ ZaimyProcessLoan
    \/ ZaimyCommitLoans
    \/ ZaimyProcessBalance
    \/ ZaimyCommitBalances
    \/ ZaimyUpdateTotals
    \/ ZaimyCommitTotals
    \/ ZaimyHandleError
    \/ ZaimyClose
    \/ Tick

SpecZaimy == InitZaimy /\ [][NextZaimy]_vars

\* Equal amounts in the reporting currency, spelled BYN.
RecReporting ==
    ("ID" :> StrV(<<"7">>) @@ "currency" :> StrV(BYN) @@ "balance" :> NumV(5, 0)
        @@ "balance_byn" :> NumV(5, 0))

\* The batches sent to upload_json_body.
UploadRecords == {RecScenarioA, RecNoKey, RecBadAmountOnly, RecNullName, RecReporting}
UploadBatches == SeqsUpTo(UploadRecords, MaxLen)

InitUpload ==
    /\ db \in {EmptyDB, EarlierDB}
    /\ today = 1
    /\ started = 0
    /\ procs = [p \in Procs |-> IdleProc]
    /\ plan \in UploadBatches
    /\ ldb = EmptyLoans
    /\ zaimy = IdleZaimy
    /\ http \in {[IdleHttp EXCEPT !.service = b] : b \in BOOLEAN}
    /\ conv = IdleConv

\* One request after the other to POST /upload, each with its own session;
\* the background uploads run at any time after their request is answered.
NextUpload ==
    \/ UploadReceive
    \/ ProcessJsonData
    \/ GetOrCreateDimDate(1)
    \/ ProcessRecord(1)
    \/ FinalFlush(1)
    \/ Summarize(1)
    \/ Commit(1)
    \/ CommitFails(1)
    \/ HandleBatchError(1)
    \/ UploadRespond
    \/ UploadToDrive
    \/ UploadClose
    \/ Tick

SpecUpload == InitUpload /\ [][NextUpload]_vars

InitConvert ==
    /\ db = EmptyDB
    /\ today = 1
    /\ started = 0
    /\ procs = [p \in Procs |-> IdleProc]
    /\ plan = <<>>
    /\ ldb = EmptyLoans
    /\ zaimy = IdleZaimy
    /\ http = IdleHttp
    /\ conv = IdleConv

NextConvert == ConvertCall \/ ConvertAgain \/ ConvertDone

SpecConvert == InitConvert /\ [][NextConvert]_vars

(***************************************************************************)
(* Two requests at once.  Each task has its own session and transaction    *)
(* (get_async_db), and every storage call is a point where the other task  *)
(* may run.  The storage is PostgreSQL at READ COMMITTED: a statement      *)
(* reads the committed rows and the rows of its own transaction; the       *)
(* INSERT of a key, or the UPDATE of a row, that another open transaction  *)
(* has written waits until that transaction ends.  An INSERT that waited   *)
(* fails with a unique violation when the other transaction committed; an  *)
(* UPDATE that waited is applied to the committed row.  DimDate            *)
(* get-or-create and the summary are taken statement by statement; the     *)
(* statements of one record are one step, which waits as a whole.          *)
(***************************************************************************)
Other(p) == 3 - p

\* The rows a step adds to the transaction tx1, tx2 being the transaction
\* after it.
Written(tx1, tx2) ==
    [dim_date |-> tx2.dim_date \ tx1.dim_date,
     accounts |-> tx2.accounts \ tx1.accounts,
     facts |-> tx2.facts \ tx1.facts,
     summary |-> tx2.summary \ tx1.summary]

SameKey(rows, held, key) == \E r \in rows, o \in held : r[key] = o[key]

\* The step of task p to the locals q2 writes a row the open transaction of
\* the other task has written: it waits.
Waits(p, q2) ==
    LET w == Written(procs[p].sess.tx, q2.sess.tx)
        held == procs[Other(p)].sess.tx
    IN \/ SameKey(w.dim_date, held.dim_date, DimDateKey)
       \/ SameKey(w.accounts, held.accounts, AccountKey)
       \/ SameKey(w.facts, held.facts, FactKey)
       \/ SameKey(w.summary, held.summary, SummaryKey)

\* Account 99 with another balance than the earlier batches carry.
RecLater99 ==
    ("ID" :> StrV(<<"9", "9">>) @@ "balance" :> NumV(2, 0)
        @@ "balance_byn" :> NumV(2, 0))

\* The batches of two requests at once: the account of scenario A, account
\* 99 with a new balance, and both accounts.
RaceBatches == {<<RecScenarioA>>, <<RecLater99>>, <<RecEarlier99, RecScenarioA>>}

\* Lines 194-283, the batch being the one of the request.
StartRequest(p) ==
    /\ procs[p].pc = "idle"
    /\ started < MaxBatches
    /\ \E records \in RaceBatches :
        Set(p, Begin(records, today, started + 1, db))
    /\ started' = started + 1
    /\ UNCHANGED <<http, conv, db, today, plan, ldb, zaimy>>

\* Lines 307-318: the SELECT of DimDate get-or-create.
DimDateSelect(p) ==
    LET q == procs[p]
        view == Overlay(db, q.sess.tx)
        found == \E r \in view.dim_date : r.date_id = q.date_id
    IN /\ q.pc = "dim_date"
       /\ \E fault \in BOOLEAN :
            Set(p, IF fault
                       THEN [q EXCEPT !.pc = "except", !.sess = Deactivate(q.sess),
                                      !.error = "dim_date"]
                   ELSE IF found THEN [q EXCEPT !.pc = "loop"]
                   ELSE [q EXCEPT !.pc = "dim_date_add"])
       /\ UNCHANGED <<http, conv, db, today, started, plan, ldb, zaimy>>

\* Lines 319-347: the row is added and flushed.  The INSERT waits while the
\* other transaction holds the key, and raises IntegrityError when the key
\* is committed by now; the except clause logs and re-raises to the handler
\* of the batch.
DimDateAdd(p) ==
    LET q == procs[p]
        added == [EmptyDB EXCEPT !.dim_date = {DimDateRow(q.date)}]
        taken == \E r \in db.dim_date : r.date_id = q.date_id
        fl == Flush(q.sess, db, added, taken)
    IN /\ q.pc = "dim_date_add"
       /\ ~SameKey(added.dim_date, procs[Other(p)].sess.tx.dim_date, DimDateKey)
       /\ Set(p, IF fl.ok THEN [q EXCEPT !.pc = "loop", !.sess = fl.s]
                 ELSE [q EXCEPT !.pc = "except", !.sess = fl.s,
                                !.error = "dim_date"])
       /\ UNCHANGED <<http, conv, db, today, started, plan, ldb, zaimy>>

\* Lines 354-518, one record, the other task's transaction being open.
RecordOfRequest(p) ==
    /\ procs[p].pc = "loop"
    /\ procs[p].idx < Len(procs[p].records)
    /\ \E fault \in RecordFaults :
        LET q2 == RecordStep(procs[p], db, fault)
        IN ~Waits(p, q2) /\ Set(p, q2)
    /\ UNCHANGED <<http, conv, db, today, started, plan, ldb, zaimy>>

\* Lines 520-528.
FinalFlushOfRequest(p) ==
    /\ procs[p].pc = "loop"
    /\ procs[p].idx = Len(procs[p].records)
    /\ \E fault \in BOOLEAN :
        LET q2 == FinalFlushStep(procs[p], db, fault)
        IN ~Waits(p, q2) /\ Set(p, q2)
    /\ UNCHANGED <<http, conv, db, today, started, plan, ldb, zaimy>>

\* Lines 114-141: the aggregation query over the fact rows of the date and
\* the SELECT of the summary row.
SummarySelect(p) ==
    LET q == procs[p]
        s == q.sess
        view == Overlay(db, s.tx)
        rows == {r \in view.facts : r.date_id = q.date_id}
    IN /\ q.pc = "summary"
       /\ \E fault \in {"none", "select"} :
            Set(p, IF ~s.active \/ fault = "select"
                       THEN [q EXCEPT !.pc = "commit", !.summary_result = "error",
                                      !.sess = Deactivate(s)]
                   ELSE IF rows = {}
                       THEN [q EXCEPT !.pc = "commit", !.summary_result = "error"]
                   ELSE [q EXCEPT !.pc = "summary_store",
                                  !.summary_data = {SummaryRow(view.facts, q.date_id)},
                                  !.existing_summary =
                                      {r \in view.summary : r.date_id = q.date_id}])
       /\ UNCHANGED <<http, conv, db, today, started, plan, ldb, zaimy>>

\* Lines 143-162: the summary row is assigned, or added, and flushed.  The
\* UPDATE of a row the other transaction has written waits and is applied
\* with the values computed before; the INSERT of a key committed by now
\* raises, and the exception is caught and reported (lines 169-177).
SummaryStore(p) ==
    LET q == procs[p]
        s == q.sess
        added == [EmptyDB EXCEPT !.summary = q.summary_data \ q.existing_summary]
        taken == /\ q.existing_summary = {}
                 /\ \E r \in db.summary : r.date_id = q.date_id
    IN /\ q.pc = "summary_store"
       /\ ~SameKey(added.summary, procs[Other(p)].sess.tx.summary, SummaryKey)
       /\ \E fault \in {"none", "flush"} :
            LET fl == Flush(s, db, added, fault = "flush" \/ taken)
            IN Set(p, IF fl.ok
                          THEN [q EXCEPT !.pc = "commit", !.sess = fl.s,
                                         !.summary_result =
                                             IF q.existing_summary # {}
                                                 THEN "updated" ELSE "created"]
                      ELSE [q EXCEPT !.pc = "commit", !.sess = fl.s,
                                     !.summary_result = "error"])
       /\ UNCHANGED <<http, conv, db, today, started, plan, ldb, zaimy>>

\* Lines 543-550, the flush of commit() waiting like any other.
CommitOfRequest(p) ==
    /\ ~Waits(p, [procs[p] EXCEPT !.sess = Flush(@, db, EmptyDB, FALSE).s])
    /\ Commit(p)

\* The warehouse after a batch of day 0 that carried the accounts of the
\* racing batches as these carry them.
SettledDB == RunBatch(<<RecScenarioA, RecEarlier99>>, 0, EmptyDB)

\* The batch of this morning, <<RecEarlier99>> on SettledDB: the day's row of
\* dim_date, the fact row of account 99 and the day's summary are committed;
\* account 42 is known from day 0 and has no fact row today.
MorningFact ==
    [id |-> <<MaxBatches + 1, 0>>, account_id |-> 99, date_id |-> DateId(DateOf(1)),
     balance |-> 100, balance_byn |-> 100]

MorningDB ==
    [SettledDB EXCEPT
        !.dim_date = @ \cup {DimDateRow(DateOf(1))},
        !.facts = @ \cup {MorningFact},
        !.summary = @ \cup {SummaryRow({MorningFact}, DateId(DateOf(1)))}]

InitConcurrent ==
    /\ db \in {EmptyDB, EarlierDB, MorningDB}
    /\ today = 1
    /\ started = 0
    /\ procs = [p \in Procs |-> IdleProc]
    /\ plan = <<>>
    /\ ldb = EmptyLoans
    /\ zaimy = IdleZaimy
    /\ http = IdleHttp
    /\ conv = IdleConv

NextConcurrent ==
    \E p \in Procs :
        \/ StartRequest(p)
        \/ DimDateSelect(p)
        \/ DimDateAdd(p)
        \/ RecordOfRequest(p)
        \/ FinalFlushOfRequest(p)
        \/ SummarySelect(p)
        \/ SummaryStore(p)
        \/ CommitOfRequest(p)
        \/ CommitFails(p)
        \/ HandleBatchError(p)
        \/ CloseSession(p)

SpecConcurrent == InitConcurrent /\ [][NextConcurrent]_vars

TypeOK ==
    /\ today \in 1..MaxDay
    /\ started \in 0..MaxBatches
    /\ \A p \in Procs : procs[p].pc \in
         {"idle", "dim_date", "dim_date_add", "loop", "summary", "summary_store",
          "commit", "except", "returned"}

(***************************************************************************)
(* Properties of process_bank_accounts.                                    *)
(***************************************************************************)
\* C1: once an exception has reached the batch level (DimDate get-or-create,
\* final flush, commit, or any exception no record handler caught), the
\* committed warehouse is, in every table, the one the batch started from,
\* the result returned is a failure, and when it is returned the session
\* holds no row of the batch's transaction.
C1_BatchErrorRollsBack ==
    \A p \in Procs :
        LET q == procs[p] IN
        (q.pc \in {"except", "returned"} /\ q.error # "") =>
            /\ db = q.db0
            /\ ~q.success
            /\ q.pc = "returned" => q.sess.tx = EmptyDB

\* A batch that created an account, a fact row and the summary, and whose
\* commit failed, has returned.
C1_Witness ==
    \E p \in Procs :
        LET q == procs[p] IN
        /\ q.pc = "returned" /\ q.error = "commit"
        /\ q.accounts_processed > 0 /\ q.balances_created > 0
        /\ q.summary_result = "created"

\* C3: the committed daily_account_balances holds at most one row for every
\* (account_id, date_id), after any sequence of batches and with the same
\* account ID in several records of a batch.
C3_OneFactPerAccountAndDate ==
    \A r1, r2 \in db.facts :
        (r1.account_id = r2.account_id /\ r1.date_id = r2.date_id) => r1 = r2

\* The committed fact rows of a date, their total in hundredths and their
\* distinct accounts.
FactsOfDate(date_id) == {r \in db.facts : r.date_id = date_id}

RECURSIVE TotalByn(_)
TotalByn(rows) ==
    IF rows = {} THEN 0
    ELSE LET r == CHOOSE x \in rows : TRUE IN r.balance_byn + TotalByn(rows \ {r})

AccountsOf(rows) == {r.account_id : r \in rows}

SummaryMatchesFacts(date_id) ==
    LET rows == FactsOfDate(date_id)
        sums == {r \in db.summary : r.date_id = date_id}
    IN /\ Cardinality(sums) = 1
       /\ \A r \in sums :
            /\ r.total_balance_byn = TotalByn(rows)
            /\ r.account_count = Cardinality(AccountsOf(rows))

\* C4: when a batch has committed and a fact row exists for its date, the
\* committed summary row of that date exists, its total is the sum of
\* balance_byn over the committed fact rows of the date and its count the
\* number of their distinct accounts, whatever was skipped or failed.
C4_SummaryMatchesFacts ==
    \A p \in Procs :
        LET q == procs[p] IN
        (q.pc = "returned" /\ q.success /\ FactsOfDate(q.date_id) # {}) =>
            SummaryMatchesFacts(q.date_id)

\* A committed batch with failed records, on a date holding two fact rows of
\* one account.
C4_Witness ==
    \E p \in Procs :
        LET q == procs[p]
            rows == FactsOfDate(q.date_id)
        IN /\ q.pc = "returned" /\ q.success /\ q.errors_count > 0
           /\ Cardinality(rows) > Cardinality(AccountsOf(rows))
           /\ TotalByn(rows) > 0

\* The natural key of a record as the claims read it: the value under the
\* first ID alias, absent when no alias is carried or the value is empty.
KeyValue(record) == get_field_value(record, "ID", NullV)
KeyUnusable(record) == ~Truthy(KeyValue(record)) \/ ~PyInt(KeyValue(record)).ok
KeyNumber(record) == PyInt(KeyValue(record)).v

\* The step of the loop over a record whose key is absent or unparseable:
\* one more error, the next record is the current one, and nothing else of
\* the task (session, written rows, transformed records, position in the
\* function) nor the committed warehouse changes.
C5_SkipStep ==
    \A p \in Procs :
        LET q == procs[p] IN
        (/\ q.pc = "loop" /\ q.idx < Len(q.records)
         /\ KeyUnusable(q.records[q.idx + 1])
         /\ procs'[p] # q) =>
            /\ procs'[p] = [q EXCEPT !.errors_count = @ + 1, !.idx = @ + 1]
            /\ db' = db

\* After the commit every record with a usable key has a fact row of its
\* account and the batch's date, and the summary row of the date exists.
C5_AfterCommit ==
    \A p \in Procs :
        LET q == procs[p]
            valid == {i \in 1..Len(q.records) : ~KeyUnusable(q.records[i])}
        IN (q.pc = "returned" /\ q.success) =>
            /\ \A i \in valid :
                 \E r \in db.facts : /\ r.account_id = KeyNumber(q.records[i])
                                      /\ r.date_id = q.date_id
            /\ valid # {} => \E r \in db.summary : r.date_id = q.date_id

Unparseable(v) == ~IsNull(v) /\ PyFloat(NormalizeAmount(v)).err # ""
AmountUnparseable(record) ==
    \/ Unparseable(get_field_value(record, "balance", NullV))
    \/ Unparseable(get_field_value(record, "balance_byn", NullV))

\* C6: the step over a record with a valid key and an amount that cannot be
\* parsed counts one more error, creates and updates no fact row, and leaves
\* the function in its loop over the records (the batch is not aborted).
C6_BadAmountStep ==
    \A p \in Procs :
        LET q == procs[p] IN
        (/\ q.pc = "loop" /\ q.idx < Len(q.records)
         /\ ~KeyUnusable(q.records[q.idx + 1])
         /\ AmountUnparseable(q.records[q.idx + 1])
         /\ procs'[p] # q) =>
            /\ procs'[p].pc = "loop"
            /\ procs'[p].errors_count = q.errors_count + 1
            /\ procs'[p].balances_created = q.balances_created
            /\ procs'[p].balances_updated = q.balances_updated
            /\ procs'[p].sess.new_facts = q.sess.new_facts

C6_BadAmountIsRecordError == [][C6_BadAmountStep]_vars

\* C7: scenario A.  The batch of the one record (key "42", USD, balance 100,
\* no reporting amount) committed on an empty warehouse leaves one account
\* of key 42, one fact row of today with source amount 100 and reporting
\* amount 100 * rate(USD), and the summary row of today with that total and
\* count 1.
C7_ScenarioA ==
    \A p \in Procs :
        LET q == procs[p]
            reporting == ToCents(DecMul(Dec(100, 0), EXCHANGE_RATES[USD]))
        IN (/\ q.pc = "returned" /\ q.success
            /\ q.records = <<RecScenarioA>> /\ q.db0 = EmptyDB) =>
            /\ {r.account_id : r \in db.accounts} = {42}
            /\ Cardinality(db.accounts) = 1
            /\ Cardinality(db.facts) = 1
            /\ \A r \in db.facts :
                 /\ r.account_id = 42 /\ r.date_id = q.date_id
                 /\ r.balance = 100 * 100 /\ r.balance_byn = reporting
            /\ db.summary = {[date_id |-> q.date_id, total_balance_byn |-> reporting,
                              account_count |-> 1]}

\* The batch of the task was committed earlier on the task's day: the one
\* batch of a run is submitted again and again, and the row of the day is
\* committed with a batch only.
SameDayRerun(q) == \E r \in q.db0.dim_date : r.date_id = q.date_id

\* C8: scenario B.  A run that commits the batch again on the same day leaves
\* the accounts table as it was and creates no account, adds no fact row,
\* updates a fact row only when an amount of it changes, and leaves the
\* summary of the day equal to the aggregation of the fact rows.
C8_ScenarioB ==
    \A p \in Procs :
        LET q == procs[p] IN
        (q.pc = "returned" /\ q.success /\ SameDayRerun(q)) =>
            /\ db.accounts = q.db0.accounts
            /\ q.accounts_processed = 0
            /\ {r.id : r \in db.facts} = {r.id : r \in q.db0.facts}
            /\ q.balances_created = 0
            /\ q.balances_updated > 0 => db.facts # q.db0.facts
            /\ FactsOfDate(q.date_id) # {} => SummaryMatchesFacts(q.date_id)

\* The Account of a key as the task's session holds it: the object it has
\* modified, else the row it reads.
StoredAccounts(q, id) ==
    LET view == Overlay(db, q.sess.tx)
    IN IF \E a \in q.sess.dirty_accounts : a.account_id = id
           THEN {a \in q.sess.dirty_accounts : a.account_id = id}
           ELSE {a \in view.accounts : a.account_id = id}

\* The tracked fields a record resolves to.
IncomingName(record) ==
    get_field_value(record, "account_name", DefaultName(KeyNumber(record)))
IncomingCurrency(record) == get_field_value(record, "currency", StrV(BYN))

\* The step over a record of an existing Account, on a working session.
\* Equal tracked fields: accounts_updated is not incremented, the session
\* marks no Account as modified and writes no Account row.  A differing
\* field: unless the step ends with the session failed, accounts_updated is
\* incremented once and the Account has both incoming values.
C9_Step ==
    \A p \in Procs :
        LET q == procs[p]
            n == procs'[p]
            record == q.records[q.idx + 1]
            id == KeyNumber(record)
            stored == StoredAccounts(q, id)
            same == \A a \in stored :
                        /\ PyEq(a.account_name, IncomingName(record))
                        /\ PyEq(a.currency, IncomingCurrency(record))
        IN (/\ q.pc = "loop" /\ q.idx < Len(q.records)
            /\ ~KeyUnusable(record) /\ n.idx = q.idx + 1
            /\ q.sess.active /\ stored # {}) =>
            /\ n.accounts_processed = q.accounts_processed
            /\ same =>
                 /\ n.accounts_updated = q.accounts_updated
                 /\ n.sess.dirty_accounts \subseteq q.sess.dirty_accounts
                 /\ n.sess.tx.accounts \subseteq q.sess.tx.accounts
            /\ (~same /\ n.sess.active) =>
                 /\ n.accounts_updated = q.accounts_updated + 1
                 /\ \E a \in n.sess.dirty_accounts :
                      /\ a.account_id = id
                      /\ a.account_name = IncomingName(record)
                      /\ a.currency = IncomingCurrency(record)

C10_Step ==
    \A p \in Procs :
        LET q == procs[p] IN
        (q.pc = "loop" /\ procs'[p].idx = q.idx + 1) => q.sess.active

C10_StorageErrorAbortsBatch == [][C10_Step]_vars

(***************************************************************************)
(* Properties of process_zaimy.                                            *)
(***************************************************************************)
\* C2: a loan batch commits or rolls back as one unit.  While the batch is
\* being handled the committed loans and daily_loan_balances are those it
\* started from (no part of its effects is committed without the rest), and
\* a batch that returns an error, as after a failure while writing
\* DailyLoanBalance rows or updating total_repaid_byn, leaves neither a Loan
\* change nor any other effect of the batch committed.
C2_LoanBatchOneUnit ==
    /\ zaimy.pc \notin {"idle", "returned"} => ldb = zaimy.ldb0
    /\ (zaimy.pc = "returned" /\ zaimy.error # "") => ldb = zaimy.ldb0

(***************************************************************************)
(* Properties of upload_json_body.                                         *)
(***************************************************************************)
\* The envelopes of the claim: not a mapping, not exactly one top-level key,
\* an unsupported kind, a record collection that is no list, a record that
\* is no mapping.
EnvelopeInvalid(json_data) ==
    \/ ~IsDict(json_data)
    \/ /\ IsDict(json_data)
       /\ \/ Cardinality(DOMAIN json_data.d) # 1
          \/ \E k \in DOMAIN json_data.d :
                \/ k \notin {"PaymentsPartners", "BankAccounts"}
                \/ ~IsList(json_data.d[k])
                \/ /\ IsList(json_data.d[k])
                   /\ \E i \in 1..Len(json_data.d[k].items) :
                        ~IsDict(json_data.d[k].items[i])

SinkInvoked == http.scheduled \cup {u.request : u \in http.uploaded}

\* C12: the upload to the cloud sink of a request whose batch went through
\* process_bank_accounts is scheduled only when the transaction of that
\* batch has committed, never for a batch that was rolled back or returned
\* without a commit.
C12_SinkOnlyAfterCommit ==
    (/\ http.pc = "responded" /\ procs[1].pc = "returned"
     /\ http.request \in SinkInvoked) => procs[1].success

\* A run of the background upload, failed or not, leaves the committed
\* warehouse as it is.
SinkLeavesWarehouse == [][http'.uploaded # http.uploaded => db' = db]_vars

\* The statistics process_bank_accounts returned with its result.
StatsCarried(response) ==
    /\ "metadata" \in DOMAIN response
    /\ "etl_stats" \in DOMAIN response.metadata

\* C14: when the transaction of the request's batch was rolled back, the
\* answer of upload_json_body is one failure result: its status is error,
\* not success, and it carries the statistics of the batch.
C14_RollbackAnsweredAsFailure ==
    (/\ http.pc = "responded" /\ procs[1].pc = "returned"
     /\ ~procs[1].success /\ procs[1].error \notin {"", "No records found"}) =>
        /\ http.response.status = "error"
        /\ StatsCarried(http.response)


(***************************************************************************)
(* Properties of the error results of the entity processors                *)
(***************************************************************************)
\* The handler of a batch of process_bank_accounts returns the transformed
\* records and the counts as they stood when the batch failed.
BankHandlerKeepsResult ==
    [][\A p \in Procs :
        (procs[p].pc = "except" /\ procs'[p].pc = "returned") =>
            /\ procs'[p].processed_records = procs[p].processed_records
            /\ procs'[p].accounts_processed = procs[p].accounts_processed
            /\ procs'[p].accounts_updated = procs[p].accounts_updated
            /\ procs'[p].balances_created = procs[p].balances_created
            /\ procs'[p].balances_updated = procs[p].balances_updated
            /\ procs'[p].errors_count = procs[p].errors_count]_vars

\* C13: when a batch ends in rollback, the result the entity processor
\* returns still holds every record transformed before the failure and the
\* created, updated and error counts accumulated up to it; here for
\* process_zaimy, whose handler is the step from "except" to "returned".
C13_RollbackResultKeepsRecords ==
    [][(zaimy.pc = "except" /\ zaimy'.pc = "returned") =>
            /\ zaimy'.processed_records = zaimy.processed_records
            /\ zaimy'.loans_processed = zaimy.loans_processed
            /\ zaimy'.loans_updated = zaimy.loans_updated
            /\ zaimy'.loans_created = zaimy.loans_created
            /\ zaimy'.errors_count = zaimy.errors_count]_vars


(***************************************************************************)
(* The counts of a batch                                                   *)
(***************************************************************************)
\* The batch went into the loop over the records: it did not return for
\* want of records and DimDate was resolved.
ReachedRecords(q) ==
    q.pc = "returned" /\ q.error \notin {"No records found", "dim_date"}

\* The records applied to storage without error: the iterations of the loop
\* that ended in no except clause.
AppliedWithoutError(q) == q.idx - q.errors_count

\* C15: a batch that reaches record processing returns counts that account
\* for every input record exactly once: the number of input records is the
\* number of records applied without error plus the error count.
C15_CountsCoverEveryRecord ==
    \A p \in Procs :
        ReachedRecords(procs[p]) =>
            Len(procs[p].records) =
                AppliedWithoutError(procs[p]) + procs[p].errors_count

\* The part of it that holds: a batch the loop of which ran to its end.
CountsCoverFinishedLoop ==
    \A p \in Procs :
        (ReachedRecords(procs[p]) /\ procs[p].error # "InvalidOperation") =>
            /\ procs[p].idx = Len(procs[p].records)
            /\ procs[p].errors_count <= procs[p].idx



(***************************************************************************)
(* The date dimension                                                      *)
(***************************************************************************)
\* The rows of dim_date: the key of a row is YYYYMMDD of its date, and no
\* date has two rows.
OneRowPerDate(rows) ==
    /\ \A r \in rows :
        r.date_id = r.date.year * 10000 + r.date.month * 100 + r.date.day
    /\ \A r1, r2 \in rows : r1.date = r2.date => r1 = r2

\* C16: resolving the date dimension for a date d yields the key YYYYMMDD(d)
\* every time; the resolution of a batch that finds the row of d committed
\* by an earlier batch writes nothing, the one that does not find it adds
\* the one row of d, and dim_date never holds two rows of a date.
C16_DimDateResolvedOnce ==
    [][/\ OneRowPerDate(db'.dim_date)
       /\ \A p \in Procs :
            (procs[p].pc = "dim_date" /\ procs'[p].pc = "loop") =>
                /\ procs'[p].date_id = DateId(procs[p].date)
                /\ IF \E r \in db.dim_date : r.date = procs[p].date
                       THEN procs'[p].sess = procs[p].sess
                       ELSE procs'[p].sess.tx.dim_date = {DimDateRow(procs[p].date)}]_vars

\* The second batch of a day has resolved the date of the first.
C16_Witness ==
    \E p \in Procs :
        /\ procs[p].pc = "loop" /\ procs[p].idx = 0 /\ procs[p].batch = 2
        /\ SameDayRerun(procs[p])
        /\ DimDateRow(procs[p].date) \in db.dim_date
        /\ procs[p].sess.tx = EmptyDB



(***************************************************************************)
(* Two batches of one date at once                                         *)
(***************************************************************************)
\* C17: of two batches that both found the dim_date row of the date absent,
\* the one whose insert hits the unique violation (the row is committed by
\* the time its INSERT runs) reads the row again and goes on to its records.
C17_DimDateRaceSafe ==
    [][\A p \in Procs :
        (/\ procs[p].pc = "dim_date_add"
         /\ procs'[p].pc # "dim_date_add"
         /\ \E r \in db.dim_date : r.date_id = procs[p].date_id) =>
            procs'[p].pc = "loop"]_vars

\* No batch is in flight.
NoBatchInFlight == \A p \in Procs : procs[p].pc \in {"idle", "returned"}

\* C18: once two batches of one date, run at once in separate transactions
\* and carrying the same account ID, have finished, the committed
\* daily_account_balances holds at most one row for that account and date.
C18_RacingInsertsArbitrated ==
    NoBatchInFlight =>
        \A r1, r2 \in db.facts :
            (r1.account_id = r2.account_id /\ r1.date_id = r2.date_id) => r1 = r2

\* C19: once two batches of one date have both committed and none is in
\* flight, the summary row of the date is the aggregation over the committed
\* fact rows of the date; here for the warehouses in which no account has
\* two fact rows of a date.
C19_LastRecomputeWins ==
    (/\ \A p \in Procs : procs[p].pc = "returned" /\ procs[p].success
     /\ procs[1].date_id = procs[2].date_id
     /\ C3_OneFactPerAccountAndDate) =>
        SummaryMatchesFacts(procs[1].date_id)



(***************************************************************************)
(* Properties of convert_currency                                          *)
(***************************************************************************)
\* C20: for a code of the rate table convert_currency returns the amount
\* times the rate of the code, for any other code the amount itself, the
\* same at every call and in both processors; the rate table stays as it
\* was loaded.
C20_ConvertMultiplicative ==
    conv.pc \in {"called", "repeated"} =>
        /\ conv.rates = EXCHANGE_RATES
        /\ \A r \in {conv.bank, conv.zaimy} :
            IF IsStr(conv.code) /\ conv.code.s \in DOMAIN conv.rates
                THEN /\ r.m = conv.amount.m * conv.rates[conv.code.s].m
                     /\ r.e = conv.amount.e + conv.rates[conv.code.s].e
                ELSE r = conv.amount

\* 100 USD converted twice: 307.00.
C20_Witness ==
    /\ conv.pc = "repeated"
    /\ conv.code = StrV(USD) /\ conv.amount = Dec(100, 0)
    /\ conv.bank = Dec(30700, 2) /\ conv.zaimy = Dec(30700, 2)



(***************************************************************************)
(* Conversion and the reporting currency                                   *)
(***************************************************************************)
\* The currency of the record is the reporting currency, under either name.
InReportingCurrency(record) ==
    LET balance_currency == get_field_value(record, "currency", NullV)
    IN PyEq(balance_currency, StrV(BYN)) \/ PyEq(balance_currency, StrV(BLR))

\* C21: process_bank_accounts never calls convert_currency for a record
\* whose currency is the reporting currency, BYN or BLR: the step of the
\* loop over such a record does not invoke the converter.
C21_ReportingCurrencyNotConverted ==
    [][\A p \in Procs :
        (/\ procs[p].pc = "loop"
         /\ procs[p].idx < Len(procs[p].records)
         /\ procs'[p] # procs[p]
         /\ ResolveKey(procs[p].records[procs[p].idx + 1]).ok
         /\ InReportingCurrency(procs[p].records[procs[p].idx + 1])) =>
            ~TransformAmounts(procs[p].records[procs[p].idx + 1]).converter_called]_vars

\* The same for process_zaimy: loan_data of a record in the reporting
\* currency carries the debt as duty_byn_money, whatever the converter is.
ZaimyReportingCurrencyNotConverted ==
    \A i \in 1..Len(zaimy.records) :
        LET record == zaimy.records[i]
            code == zaimy_get_field_value(record, "currency", StrV(BYN))
        IN (PyEq(code, StrV(BYN)) \/ PyEq(code, StrV(BLR))) =>
              \A d \in {Dec(40, 0), Dec(1, 2)} : DutyByn(code, d) = d



(***************************************************************************)
(* The day's total of process_zaimy                                        *)
(***************************************************************************)
\* process_zaimy has returned its result without reaching the handler of
\* the batch.
ZaimySucceeded ==
    zaimy.pc = "returned" /\ zaimy.error = "" /\ zaimy.records # <<>>

LoanBalancesOfDate(date_id) == {r \in ldb.balances : r.date_id = date_id}

TotalsAreDaySums(date_id) ==
    \A r \in LoanBalancesOfDate(date_id) :
        r.total_repaid_byn = SumCurrentDebt(LoanBalancesOfDate(date_id))

\* C22: once process_zaimy has completed successfully for a batch that
\* wrote or found daily_loan_balances rows of a date, every row of that
\* date carries in total_repaid_byn the sum of current_debt_byn over all
\* rows of the date.
C22_TotalsAreDaySums ==
    ZaimySucceeded =>
        \A date_id \in zaimy.processed_date_ids : TotalsAreDaySums(date_id)



(***************************************************************************)
(* A loan record without its natural key                                   *)
(***************************************************************************)
\* The record carries its ID under none of the names of the field mapping.
LoanKeyMissing(record) ==
    \A i \in 1..Len(ZAIMY_FIELD_MAPPINGS["ID"]) :
        ZAIMY_FIELD_MAPPINGS["ID"][i] \notin DOMAIN record

\* The record process_zaimy is about to take, in either of its loops.
ZaimyAtRecord(pc) ==
    /\ zaimy.pc = pc
    /\ zaimy.idx < Len(zaimy.records)
    /\ zaimy' # zaimy

LoansOfValidRecord(record) ==
    {l \in ldb.loans :
        /\ l.source_loan_id = PyStr(zaimy_get_field_value(record, "ID", NullV))
        /\ PyDecimal(zaimy_get_field_value(record, "duty", NumV(0, 0))).err = ""}

\* C24: process_zaimy creates the dim_date row of the processing date when
\* it is missing and then writes the DailyLoanBalance facts: once the batch
\* has completed successfully, the processing date has its dim_date row and
\* every valid record of the batch has its fact row of that date.
C24_LoanDateCreatedOnFirstReference ==
    ZaimySucceeded =>
        \A i \in 1..Len(zaimy.records) :
            \A l \in LoansOfValidRecord(zaimy.records[i]) :
                \E d \in db.dim_date : \E r \in ldb.balances :
                    r.date_id = d.date_id /\ r.loan_id = l.id

\* With the dates loaded beforehand the facts of the valid records are there.
LoanFactsWrittenForStoredDate ==
    (ZaimySucceeded /\ db.dim_date # {}) =>
        \A i \in 1..Len(zaimy.records) :
            \A l \in LoansOfValidRecord(zaimy.records[i]) :
                \E d \in db.dim_date : \E r \in ldb.balances :
                    r.date_id = d.date_id /\ r.loan_id = l.id



(***************************************************************************)
(* The order of the steps of one batch                                     *)
(***************************************************************************)
\* The fact rows a session has written or is about to write.
FactWrites(s) ==
    s.tx.facts \cup {FactRow(o) : o \in s.new_facts \cup s.dirty_facts}

\* The rows of the committed storage and of the session's transaction.
Flushed(s) == Overlay(db, s.tx)

\* Every fact the step of task p writes has its dim_date row flushed before
\* the step and the row of its account flushed after it.
FactsFollowDateAndAccount(p) ==
    \A f \in FactWrites(procs'[p].sess) \ FactWrites(procs[p].sess) :
        /\ procs[p].pc = "loop"
        /\ \E r \in Flushed(procs[p].sess).dim_date : r.date_id = f.date_id
        /\ \E a \in Overlay(db, procs'[p].sess.tx).accounts :
               a.account_id = f.account_id

\* The summary is computed with nothing left to flush, and only the
\* summary step takes the task to the commit.
SummaryFollowsFlush(p) ==
    /\ procs[p].pc = "summary" => IsClean(procs[p].sess)
    /\ (procs[p].pc # "summary" /\ procs'[p].pc = "summary") =>
           (procs[p].pc = "loop" /\ procs[p].idx = Len(procs[p].records))
    /\ (procs[p].pc # "commit" /\ procs'[p].pc = "commit") =>
           (procs[p].pc = "summary" /\ procs'[p].summary_result # "unset")
    /\ db' # db => (procs[p].pc = "commit" /\ procs[p].summary_result # "unset")

\* C25: within one batch of process_bank_accounts the dim_date row of the
\* processing date is flushed before a fact row referencing it is added,
\* the Account of a record is stored before the record's fact, the summary
\* is computed only after the flush of every fact write, and the commit
\* follows the summary.
C25_StepsOrdered ==
    [][FactsFollowDateAndAccount(1) /\ SummaryFollowsFlush(1)]_vars

\* A batch has created the date, an account and its fact, stored the summary
\* and committed.
C25_Witness ==
    /\ procs[1].pc = "returned" /\ procs[1].success
    /\ procs[1].db0.dim_date = {}
    /\ procs[1].accounts_processed >= 1
    /\ procs[1].balances_created >= 1
    /\ procs[1].summary_result = "created"
    /\ db.facts # {}



(***************************************************************************)
(* The periodic flush                                                      *)
(***************************************************************************)
\* The records of the batch whose fact the session holds unflushed: a new
\* fact carries the batch and the index of its record.
PendingRecords(s) == {o.id : o \in s.new_facts \cup s.dirty_facts}

\* C26: during process_bank_accounts the records whose writes are pending
\* since the last flush never number more than the stride of 50, whatever
\* records the batch is made of.
C26_PendingWorkBounded ==
    \A p \in Procs : Cardinality(PendingRecords(procs[p].sess)) <= FlushStride

\* A record at an index that is a multiple of the stride, stored with no
\* error, leaves nothing unflushed.
StoredStrideRecordFlushes ==
    [][\A p \in Procs :
        (/\ procs[p].pc = "loop"
         /\ procs[p].idx > 0 /\ procs[p].idx % FlushStride = 0
         /\ procs[p].idx < Len(procs[p].records)
         /\ procs'[p].idx = procs[p].idx + 1
         /\ procs'[p].errors_count = procs[p].errors_count) =>
            IsClean(procs'[p].sess)]_vars


(***************************************************************************)
(* Locale-formatted amounts                                                *)
(***************************************************************************)
\* An amount with a space between the thousands and a decimal comma, and
\* the same amount spelled plainly; the other amount is given.
RecSpacedAmount ==
    ("ID" :> StrV(<<"7">>)
        @@ "balance" :> StrV(<<"1", " ", "2", "3", "4", ",", "5", "6">>)
        @@ "balance_byn" :> NumV(5, 0))
RecPlainAmount ==
    ("ID" :> StrV(<<"7">>)
        @@ "balance" :> StrV(<<"1", "2", "3", "4", ".", "5", "6">>)
        @@ "balance_byn" :> NumV(5, 0))

AmountRecords == {RecSpacedAmount, RecPlainAmount, RecCommaAmount, RecLocale}

InitAmounts ==
    /\ db \in {EmptyDB, EarlierDB}
    /\ today = 1
    /\ started = 0
    /\ procs = [p \in Procs |-> IdleProc]
    /\ plan \in SeqsUpTo(AmountRecords, MaxLen)
    /\ ldb = EmptyLoans
    /\ zaimy = IdleZaimy
    /\ http = IdleHttp
    /\ conv = IdleConv

SpecAmounts == InitAmounts /\ [][Next]_vars

\* The spelling with a decimal point and no whitespace.
IsNotSpace(c) == c # " "
PlainSpelling(s) == ReplaceComma(SelectSeq(s, IsNotSpace))

AmountNames ==
    {FIELD_MAPPINGS["balance"][i] : i \in 1..Len(FIELD_MAPPINGS["balance"])}
        \cup {FIELD_MAPPINGS["balance_byn"][i] :
                  i \in 1..Len(FIELD_MAPPINGS["balance_byn"])}

\* The record with its str amounts spelled plainly.
Respelled(record) ==
    [k \in DOMAIN record |->
        IF k \in AmountNames /\ IsStr(record[k])
            THEN StrV(PlainSpelling(record[k].s)) ELSE record[k]]

\* The record has an amount given as a str, and all such amounts are
\* numerals once spelled plainly.
LocaleFormatted(record) ==
    /\ \E k \in DOMAIN record \cap AmountNames : IsStr(record[k])
    /\ \A k \in DOMAIN record \cap AmountNames :
           IsStr(record[k]) => IsNumeral(PlainSpelling(record[k].s))

\* The step of the loop stores for the record the amounts of `other`.
StoresAmountsOf(p, other) ==
    /\ procs'[p].pc # "except"
    /\ Len(procs'[p].processed_records) = Len(procs[p].processed_records) + 1
    /\ LET t == procs'[p].processed_records[Len(procs'[p].processed_records)]
       IN /\ t.balance = TransformAmounts(other).balance
          /\ t.balance_byn = TransformAmounts(other).balance_byn
          /\ ~TransformAmounts(other).abort

\* C27: an amount given as a string with a decimal comma and whitespace is
\* normalised to the decimal its plain spelling denotes: the record and the
\* record with its amounts spelled plainly ("1 234,56" and "1234.56") are
\* stored with the same balance.
C27_LocaleAmountsNormalised ==
    [][\A p \in Procs :
        (/\ procs[p].pc = "loop"
         /\ procs[p].idx < Len(procs[p].records)
         /\ procs'[p] # procs[p]
         /\ ResolveKey(procs[p].records[procs[p].idx + 1]).ok
         /\ LocaleFormatted(procs[p].records[procs[p].idx + 1])) =>
            StoresAmountsOf(p, Respelled(procs[p].records[procs[p].idx + 1]))]_vars

\* Both amounts given, with whitespace around them only: the comma is read
\* as the decimal point.
HasInnerSpace(s) == \E i \in 1..Len(Strip(s)) : Strip(s)[i] = " "

SurroundedAmountsNormalised ==
    [][\A p \in Procs :
        (/\ procs[p].pc = "loop"
         /\ procs[p].idx < Len(procs[p].records)
         /\ procs'[p] # procs[p]
         /\ ResolveKey(procs[p].records[procs[p].idx + 1]).ok
         /\ LocaleFormatted(procs[p].records[procs[p].idx + 1])
         /\ \A k \in DOMAIN procs[p].records[procs[p].idx + 1] \cap AmountNames :
                /\ IsStr(procs[p].records[procs[p].idx + 1][k])
                /\ ~HasInnerSpace(procs[p].records[procs[p].idx + 1][k].s)
         /\ ~IsNull(get_field_value(procs[p].records[procs[p].idx + 1],
                                    "balance_byn", NullV))) =>
            StoresAmountsOf(p, Respelled(procs[p].records[procs[p].idx + 1]))]_vars



(***************************************************************************)
(* The writes of a record counted as an error                              *)
(***************************************************************************)
\* The warehouse after a batch of the day that carried account 42 twice:
\* the account has two fact rows of the date.
TwiceDB == RunBatch(<<RecScenarioA, RecScenarioA>>, 1, EmptyDB)

InitRerun ==
    /\ db \in {TwiceDB, EarlierDB}
    /\ today = 1
    /\ started = 0
    /\ procs = [p \in Procs |-> IdleProc]
    /\ plan \in SeqsUpTo({RecConverted, RecScenarioA, RecNoKey, RecNullName}, MaxLen)
    /\ ldb = EmptyLoans
    /\ zaimy = IdleZaimy
    /\ http = IdleHttp
    /\ conv = IdleConv

SpecRerun == InitRerun /\ [][Next]_vars

\* The batch of task p has committed with every record counted as an error.
CommittedWithAllErrors(p) ==
    /\ procs[p].pc = "returned" /\ procs[p].success
    /\ procs[p].records # <<>>
    /\ procs[p].errors_count = Len(procs[p].records)

\* C28: a record of process_bank_accounts that is counted as an error
\* leaves no write of its own behind: a batch that commits with every
\* record counted as an error has persisted no change of an Account row
\* and no change of a DailyAccountBalance row.
C28_FailedRecordLeavesNoWrite ==
    \A p \in Procs :
        CommittedWithAllErrors(p) =>
            /\ db.accounts = procs[p].db0.accounts
            /\ db.facts = procs[p].db0.facts

\* The fact rows are left alone.
FailedRecordsLeaveFacts ==
    \A p \in Procs : CommittedWithAllErrors(p) => db.facts = procs[p].db0.facts



(***************************************************************************)
(* The frame of a committed batch                                          *)
(***************************************************************************)
\* The account IDs the records of a batch resolve to.
BatchIds(q) ==
    {ResolveKey(q.records[i]).id :
        i \in {j \in 1..Len(q.records) : ResolveKey(q.records[j]).ok}}

\* The rows of `after` and `before` that satisfy Outside are the same.
OutsideDimDate(q, r) == r.date_id # q.date_id
OutsideAccounts(q, r) == r.account_id \notin BatchIds(q)
OutsideFacts(q, r) == r.account_id \notin BatchIds(q) \/ r.date_id # q.date_id
OutsideSummary(q, r) == r.date_id # q.date_id

FrameKept(q, before, after) ==
    /\ {r \in after.dim_date : OutsideDimDate(q, r)}
          = {r \in before.dim_date : OutsideDimDate(q, r)}
    /\ {r \in after.accounts : OutsideAccounts(q, r)}
          = {r \in before.accounts : OutsideAccounts(q, r)}
    /\ {r \in after.facts : OutsideFacts(q, r)}
          = {r \in before.facts : OutsideFacts(q, r)}
    /\ {r \in after.summary : OutsideSummary(q, r)}
          = {r \in before.summary : OutsideSummary(q, r)}

\* C29: a committed batch of process_bank_accounts for the date d changes
\* only the dim_date row of d, the Account rows of the IDs of the batch, the
\* fact rows of those IDs for d and the summary row of d; every other row
\* is the same after the commit as before.
C29_CommitFrame ==
    [][db' # db => FrameKept(procs[1], db, db')]_vars

\* A batch has committed changes to a warehouse that holds the rows of an
\* earlier date and of an account the batch does not carry.
C29_Witness ==
    /\ procs[1].pc = "returned" /\ procs[1].success
    /\ procs[1].db0 = EarlierDB
    /\ db # EarlierDB
    /\ \E r \in db.accounts : r.account_id \notin BatchIds(procs[1])
    /\ \E r \in db.facts : r.date_id # procs[1].date_id
    /\ \E r \in db.facts : r.date_id = procs[1].date_id



(***************************************************************************)
(* Termination of process_bank_accounts                                    *)
(***************************************************************************)
\* The coroutine of task 1 is at a record of its loop: a step of
\* ProcessRecord(1) is enabled, and every such step takes the next record
\* or leaves the loop.
AtRecord ==
    procs[1].pc = "loop" /\ procs[1].idx < Len(procs[1].records)

\* The event loop resumes the coroutine whenever the storage has answered,
\* and the storage answers every call, with a result or with an error:
\* weak fairness of every step of the coroutine.  For ProcessRecord(1) the
\* condition is written out, ENABLED <<ProcessRecord(1)>>_vars being
\* AtRecord.
TaskFairness ==
    /\ WF_vars(GetOrCreateDimDate(1))
    /\ WF_vars(FinalFlush(1))
    /\ WF_vars(Summarize(1))
    /\ WF_vars(Commit(1) \/ CommitFails(1))
    /\ WF_vars(HandleBatchError(1))
    /\ ([]<>(~AtRecord) \/ []<><<ProcessRecord(1)>>_vars)

\* Batches of a stored record, a record without key, a record whose amount
\* aborts the batch and a record whose Account cannot be stored.
InitReturns ==
    /\ db = EmptyDB
    /\ today = 1
    /\ started = 0
    /\ procs = [p \in Procs |-> IdleProc]
    /\ plan \in SeqsUpTo({RecScenarioA, RecNoKey, RecCommaAmount, RecNullName}, MaxLen)
    /\ ldb = EmptyLoans
    /\ zaimy = IdleZaimy
    /\ http = IdleHttp
    /\ conv = IdleConv

SpecReturns == InitReturns /\ [][Next]_vars /\ TaskFairness

InProgress(p) == procs[p].pc \notin {"idle", "returned"}

\* C30: every invocation of process_bank_accounts with a session ends by
\* returning its result, success or error, whichever storage operation
\* fails and whatever the records carry: a batch in progress leads to the
\* batch having returned.
C30_AlwaysReturns == InProgress(1) ~> (procs[1].pc = "returned")

\* The batch has returned its error result after a failure that reached the
\* handler of the batch, the rollback itself having raised.
C30_Witness ==
    /\ procs[1].pc = "returned" /\ ~procs[1].success
    /\ procs[1].error \notin {"", "No records found"}
    /\ ~procs[1].sess.active

====
